---------------------------- MODULE Spec2Model ----------------------------
(***************************************************************************)
(* A model of the pok3r protocol driver (src/src/main.rs): the distributed *)
(* shuffle, the permutation argument and its verifier, the encrypt-and-    *)
(* prove step and its verifier, and main's sequence of labelled rounds.    *)
(*                                                                         *)
(* Scaling.  The source works over the scalar field of a pairing curve     *)
(* with a deck of 64 cards.  The model keeps the algebra and scales the    *)
(* sizes: a deck of DeckSize cards over the prime field of FieldOrder      *)
(* elements, the smallest prime field that has a multiplicative subgroup   *)
(* of order DeckSize and elements outside it.  Group elements of G1, G2    *)
(* and Gt are represented by their discrete logarithms (all three groups   *)
(* have prime order FieldOrder, as in the source, where F is the scalar    *)
(* field of the curve), so that e(a*G1, b*G2) = (a*b)*Gt.                  *)
(*                                                                         *)
(* A wire is the tuple of the shares all the parties hold for one handle   *)
(* (the source holds one party's share per handle; the model holds all of  *)
(* them side by side).  Party 0 of the source is index 1 of the tuple.     *)
(***************************************************************************)
EXTENDS Integers, Sequences, FiniteSets, TLC

\* ------------------------------------------------------------------ sizes
\* Number of cards (64 in the source), and of cards with a fixed position
\* (12 in the source: the cards 52..63).
DeckSize == 3
NFixed == 1
\* Number of parties: the address book of main.rs lists three peers.
NParties == 3
\* The shares a party other than party 0 samples for a fresh wire are 0..MaxShare.
MaxShare == 1
\* The values ran() and beaver() produce are 0..MaxRan.
MaxRan == 1
\* The model stops counting the shuffle's draws at MaxTrials.
MaxTrials == 6
\* The trapdoor of the structured reference string (an external input).
Tau == 3
\* The number of cards whose share a faulty party overwrites is at most MaxTampered.
MaxTampered == 2

IsPrime(n) ==
    n > 1 /\ \A d \in 2..(n - 1) : n % d # 0

HasSubgroup(p) ==
    IsPrime(p) /\ (p - 1) % DeckSize = 0

\* |F|: the smallest prime p > DeckSize + 1 with DeckSize | p - 1.
FieldOrder ==
    CHOOSE p \in (DeckSize + 2)..(DeckSize * DeckSize + 1) :
        /\ HasSubgroup(p)
        /\ \A q \in (DeckSize + 2)..(p - 1) : ~HasSubgroup(q)

F == 0..(FieldOrder - 1)
Parties == 1..NParties

\* ------------------------------------------------------------ field F
FAdd(a, b) == (a + b) % FieldOrder
FSub(a, b) == (a - b + FieldOrder) % FieldOrder
FMul(a, b) == (a * b) % FieldOrder
FNeg(a) == (FieldOrder - a) % FieldOrder

RECURSIVE compute_power(_, _)
compute_power(b, e) ==
    IF e = 0 THEN 1 ELSE FMul(b, compute_power(b, e - 1))

InverseTable ==
    [x \in 1..(FieldOrder - 1) |->
        CHOOSE y \in 1..(FieldOrder - 1) : FMul(x, y) = 1]

\* Field::inverse(): None on zero; callers unwrap, so they guard on x # 0.
FInv(x) == InverseTable[x]
FDiv(a, b) == FMul(a, FInv(b))

SubgroupOrder(w) ==
    CHOOSE k \in 1..(FieldOrder - 1) :
        compute_power(w, k) = 1 /\ \A j \in 1..(k - 1) : compute_power(w, j) # 1

\* utils::multiplicative_subgroup_of_size(64): a generator of the subgroup H.
multiplicative_subgroup_of_size ==
    CHOOSE w \in 1..(FieldOrder - 1) :
        /\ SubgroupOrder(w) = DeckSize
        /\ \A u \in 1..(w - 1) : SubgroupOrder(u) # DeckSize

OmegaPow ==
    [i \in 0..(DeckSize - 1) |-> compute_power(multiplicative_subgroup_of_size, i)]

\* H = {w^0, ..., w^(DeckSize-1)}
H == {OmegaPow[i] : i \in 0..(DeckSize - 1)}

\* ------------------------------------------------------- polynomials
\* A polynomial is the sequence of its coefficients, constant term first.
RECURSIVE SumTo(_, _)
SumTo(f, n) ==
    IF n = 0 THEN 0 ELSE FAdd(f[n], SumTo(f, n - 1))

\* The sequence << f[1], ..., f[n] >>, every element computed once.
RECURSIVE Vec(_, _)
Vec(f, n) ==
    IF n = 0 THEN << >> ELSE Append(Vec(f, n - 1), f[n])

Coef(p, i) == IF i >= 1 /\ i <= Len(p) THEN p[i] ELSE 0

RECURSIVE Horner(_, _, _)
Horner(p, z, i) ==
    IF i > Len(p) THEN 0 ELSE FAdd(p[i], FMul(z, Horner(p, z, i + 1)))

\* Polynomial::evaluate
evaluate(p, z) == Horner(p, z, 1)

MaxLen(p, q) == IF Len(p) > Len(q) THEN Len(p) ELSE Len(q)

PolyAdd(p, q) ==
    Vec([i \in 1..MaxLen(p, q) |-> FAdd(Coef(p, i), Coef(q, i))], MaxLen(p, q))

PolySub(p, q) ==
    Vec([i \in 1..MaxLen(p, q) |-> FSub(Coef(p, i), Coef(q, i))], MaxLen(p, q))

PolyScale(p, k) == Vec([i \in 1..Len(p) |-> FMul(p[i], k)], Len(p))

PolyMul(p, q) ==
    IF Len(p) = 0 \/ Len(q) = 0 THEN << >>
    ELSE Vec([k \in 1..(Len(p) + Len(q) - 1) |->
                SumTo([i \in 1..Len(p) |-> FMul(p[i], Coef(q, k - i + 1))], Len(p))],
             Len(p) + Len(q) - 1)

\* utils::interpolate_poly_over_mult_subgroup: the polynomial of degree
\* < DeckSize with value evals[i+1] at w^i (the inverse transform).
interpolate_poly_over_mult_subgroup(evals) ==
    Vec([k \in 1..DeckSize |->
            FMul(FInv(DeckSize % FieldOrder),
                 SumTo([i \in 1..DeckSize |->
                          FMul(evals[i], FInv(compute_power(OmegaPow[i - 1], k - 1)))],
                       DeckSize))],
        DeckSize)

\* t(X) in the place of t(X/w).
poly_domain_div_one(p) == p

\* utils::poly_domain_div_w: t'(X) = t(X/w): coefficient i times w^(-i).
poly_domain_div_w(p) ==
    Vec([i \in 1..Len(p) |->
            FMul(p[i], FInv(compute_power(multiplicative_subgroup_of_size, i - 1)))],
        Len(p))

\* divide_by_vanishing_poly: (q, r) with d = q * (X^DeckSize - 1) + r.
RECURSIVE FoldAbove(_, _)
FoldAbove(d, i) ==
    IF i + DeckSize > Len(d) THEN 0
    ELSE FAdd(d[i + DeckSize], FoldAbove(d, i + DeckSize))

divide_by_vanishing_poly(d) ==
    LET nq == IF Len(d) > DeckSize THEN Len(d) - DeckSize ELSE 0
        nr == IF Len(d) > DeckSize THEN DeckSize ELSE Len(d)
    IN  << Vec([i \in 1..nq |-> FoldAbove(d, i)], nq),
           Vec([i \in 1..nr |-> FAdd(d[i], FoldAbove(d, i))], nr) >>

\* Division by (X - z): the quotient of synthetic division (remainder p(z)).
RECURSIVE SynthHigh(_, _, _)
SynthHigh(p, z, i) ==
    IF i > Len(p) THEN 0 ELSE FAdd(p[i], FMul(z, SynthHigh(p, z, i + 1)))

\* The quotient of p by X instead of X - z.
divide_by_x(p, z) ==
    LET n == IF Len(p) > 0 THEN Len(p) - 1 ELSE 0
    IN  Vec([i \in 1..n |-> p[i + 1]], n)

divide_by_linear(p, z) ==
    LET n == IF Len(p) > 0 THEN Len(p) - 1 ELSE 0
    IN  Vec([i \in 1..n |-> SynthHigh(p, z, i + 1)], n)

\* ------------------------------------------------------------- KZG
\* utils::commit_poly: sum_i f_i * tau^i * G1, i.e. f(tau) in the exponent.
commit_poly(p) == evaluate(p, Tau)

\* utils::kzg_check: e(C - v*G1, G2) = e(pi, tau*G2 - z*G2).
kzg_check(com, z, v, pi) ==
    FSub(com, v) = FMul(pi, FSub(Tau, z))


\* ------------------------------------------------------------ state
VARIABLES
    pc,                 \* where the run is ("panic": an unwrap or assert failed)
    samples,            \* the shares parties 1.. sample for a fresh wire
    sk,                 \* shuffle_deck: the wire [sk]
    card_share_values,  \* shuffle_deck: the wires of the cards pushed so far
    prfs,               \* shuffle_deck: the PRF values seen so far
    trials,             \* shuffle_deck: iterations of the while loop so far
    fs_table,           \* fs_hash: the answers given so far, by blob sequence
    perm_proof,         \* the PermutationProof handed to the verifier
    verified,           \* the result of verify_permutation_argument
    faults,             \* what was injected into the run (none: an honest run)
    enc_proof,          \* the EncryptProof handed to the verifier
    main_pos,           \* main: the labelled operations each party has completed
    main_posted,        \* main: whether a party has broadcast for its current one
    mailbox,            \* the (label, party) pairs broadcast so far
    test,               \* the locals of the self-test main is running
    verdicts,           \* main: the results of the verifiers called so far
    exit_status,        \* main: the exit status of the process once it has ended
    past_runs,          \* the challenges of the runs of main that have ended
    e2n,                \* the queue from the evaluator to the network daemon
    n2e,                \* the queue from the network daemon to the evaluator
    view,               \* shuffle_deck as each party runs it, by party
    prover              \* compute_permutation_argument: its locals, step by step

shuffleVars == << sk, card_share_values, prfs, trials >>
permVars == << fs_table, perm_proof, verified, faults >>
encVars == << enc_proof >>
mainVars == << main_pos, main_posted, mailbox >>
testVars == << test >>
runVars == << verdicts, exit_status, past_runs >>
netVars == << e2n, n2e >>
partyVars == << view >>
proverVars == << prover >>
otherVars == << testVars, runVars, netVars, partyVars, proverVars >>

\* ------------------------------------------------ evaluator (wires)
ShareVals == 0..MaxShare
RanVals == 0..MaxRan

\* The sampling patterns of the parties other than party 0.
SamplePatterns == [2..NParties -> ShareVals]

\* output_wire: every party broadcasts its share; the result is the sum.
output_wire(w) == SumTo(w, NParties)

\* A wire of logical value v: parties 1.. hold their samples, party 0 the rest.
Share(v, smp) ==
    Vec([k \in Parties |->
            IF k = 1
            THEN FSub(v, SumTo([j \in Parties |-> IF j = 1 THEN 0 ELSE smp[j]], NParties))
            ELSE smp[k] % FieldOrder],
        NParties)

\* fixed_wire_handle: a public value as a wire; party 0 holds it.
fixed_wire_handle(v) == Vec([k \in Parties |-> IF k = 1 THEN v ELSE 0], NParties)

add(x, y) == Vec([k \in Parties |-> FAdd(x[k], y[k])], NParties)

\* The public scalar added by every party to its share.
clear_add_by_all(x, c) == Vec([k \in Parties |-> FAdd(x[k], c)], NParties)

\* clear_add: add a public scalar (one party adds it).
clear_add(x, c) ==
    Vec([k \in Parties |-> IF k = 1 THEN FAdd(x[k], c) ELSE x[k]], NParties)

scale(x, c) == Vec([k \in Parties |-> FMul(x[k], c)], NParties)

\* beaver(): triples (a, b, c) of wires with c = a * b.
BeaverTriples(smp) ==
    {<< Share(a, smp), Share(b, smp), Share(FMul(a, b), smp) >> : a \in RanVals, b \in RanVals}

\* mult with the roles of the parties exchanged: party 0 alone takes
\* c + d*b + e*a of its shares, and every party adds the constant d*e.
mult_as_described(x, y, tr) ==
    LET d == FSub(output_wire(x), output_wire(tr[1]))
        e == FSub(output_wire(y), output_wire(tr[2]))
    IN  Vec([k \in Parties |->
                FAdd(IF k = 1
                     THEN FAdd(tr[3][k], FAdd(FMul(d, tr[2][k]), FMul(e, tr[1][k])))
                     ELSE 0,
                     FMul(d, e))],
            NParties)

\* mult: open d = x - a and e = y - b; every party takes c + d*b + e*a of its
\* shares and one party adds the constant d*e.
mult(x, y, tr) ==
    LET d == FSub(output_wire(x), output_wire(tr[1]))
        e == FSub(output_wire(y), output_wire(tr[2]))
    IN  Vec([k \in Parties |->
                FAdd(FAdd(tr[3][k], FAdd(FMul(d, tr[2][k]), FMul(e, tr[1][k]))),
                     IF k = 1 THEN FMul(d, e) ELSE 0)],
            NParties)

\* inv: m = mult(x, r) is opened and scale(r, 1/m) returned; fails when m = 0.
inv_fails(x, r, tr) == output_wire(mult(x, r, tr)) = 0
inv(x, r, tr) == scale(r, FInv(output_wire(mult(x, r, tr))))

\* The first party's g^(its share) instead of the product over the parties.
output_wire_in_exponent_of_one(w) == w[1]

\* output_wire_in_exponent: g^s, the sum of the parties' g^(s_i).
output_wire_in_exponent(w) == output_wire(w)

\* The value of a proof variable before the proof is computed.
NoProof == [none |-> TRUE]

\* No party has started main's labelled operations.
MainIdle ==
    /\ main_pos = [k \in Parties |-> 0]
    /\ main_posted = [k \in Parties |-> FALSE]
    /\ mailbox = {}

\* No self-test is running.
TestIdle == test = [name |-> "none"]

\* main has called no verifier and the process has not ended.
RunIdle ==
    /\ verdicts = << >>
    /\ exit_status = "running"
    /\ past_runs = << >>

\* Nothing is queued between the evaluator and the network daemon.
NetIdle ==
    /\ e2n = << >>
    /\ n2e = << >>

\* No party has entered shuffle_deck.
PartiesIdle == view = << >>

\* compute_permutation_argument has not been entered.
ProverIdle == prover = [step |-> "none"]

OthersIdle ==
    /\ TestIdle
    /\ RunIdle
    /\ NetIdle
    /\ PartiesIdle
    /\ ProverIdle

\* ------------------------------------------------------ shuffle_deck
\* The first card with a fixed position (52 in the source).
FirstFixed == DeckSize - NFixed

\* main.rs:222, the seen-set test.
prfs_contains_never(seen, y) == FALSE
prfs_contains_always(seen, y) == TRUE
prfs_contains(seen, y) == y \in seen

\* main.rs:172: [sk] <- ran().
ShuffleInit ==
    /\ pc = "shuffle_fixed"
    /\ samples \in SamplePatterns
    /\ \E v \in F : sk = Share(v, samples)
    /\ card_share_values = << >>
    /\ prfs = {}
    /\ trials = 0
    /\ fs_table = << >>
    /\ perm_proof = NoProof
    /\ verified = FALSE
    /\ faults = {}
    /\ enc_proof = NoProof
    /\ MainIdle
    /\ OthersIdle

\* main.rs:182-202: one iteration of the loop over the fixed cards.
ShuffleFixedCard ==
    /\ pc = "shuffle_fixed"
    /\ Len(card_share_values) < NFixed
    /\ \E r \in RanVals, tr \in BeaverTriples(samples) :
        LET i == FirstFixed + Len(card_share_values)
            w_pow_i == OmegaPow[i]
            h_r == Share(r, samples)
            denom == clear_add(sk, w_pow_i)
        IN  IF inv_fails(denom, h_r, tr)
            THEN /\ pc' = "panic"
                 /\ UNCHANGED << samples, shuffleVars, permVars, encVars, mainVars, otherVars >>
            ELSE LET t_i == inv(denom, h_r, tr)
                     y_i == output_wire_in_exponent(t_i)
                 IN  /\ prfs' = prfs \cup {y_i}
                     /\ card_share_values' =
                            Append(card_share_values, fixed_wire_handle(w_pow_i))
                     /\ UNCHANGED << pc, samples, sk, trials, permVars, encVars, mainVars, otherVars >>

\* main.rs:182: the loop over the fixed cards ends.
ShuffleFixedDone ==
    /\ pc = "shuffle_fixed"
    /\ Len(card_share_values) >= NFixed
    /\ pc' = "shuffle_draw"
    /\ UNCHANGED << samples, shuffleVars, permVars, encVars, mainVars, otherVars >>

\* main.rs:205-227: one iteration of the while loop.
ShuffleDraw ==
    /\ pc = "shuffle_draw"
    /\ Len(card_share_values) < DeckSize
    /\ trials < MaxTrials
    /\ \E r \in RanVals, tr \in BeaverTriples(samples), c \in H :
        LET h_r == Share(r, samples)
            c_i == Share(c, samples)
            t_i == add(c_i, sk)
        IN  IF inv_fails(t_i, h_r, tr)
            THEN /\ pc' = "panic"
                 /\ UNCHANGED << samples, shuffleVars, permVars, encVars, mainVars, otherVars >>
            ELSE LET y_i == output_wire_in_exponent(inv(t_i, h_r, tr))
                 IN  /\ trials' = trials + 1
                     /\ IF ~prfs_contains(prfs, y_i)
                        THEN /\ prfs' = prfs \cup {y_i}
                             /\ card_share_values' = Append(card_share_values, c_i)
                        ELSE UNCHANGED << prfs, card_share_values >>
                     /\ UNCHANGED << pc, samples, sk, permVars, encVars, mainVars, otherVars >>

\* main.rs:205, 233-240: the loop ends, the cards are opened for printing
\* (card_mapping.get(..).unwrap()) and the vectors are returned.
ShuffleReturn ==
    /\ pc = "shuffle_draw"
    /\ Len(card_share_values) >= DeckSize
    /\ pc' = IF \A i \in 1..Len(card_share_values) :
                    output_wire(card_share_values[i]) \in H
             THEN "shuffle_done" ELSE "panic"
    /\ UNCHANGED << samples, shuffleVars, permVars, encVars, mainVars, otherVars >>

vars == << pc, samples, shuffleVars, permVars, encVars, mainVars, otherVars >>

ShuffleNext ==
    \/ ShuffleFixedCard
    \/ ShuffleFixedDone
    \/ ShuffleDraw
    \/ ShuffleReturn

SpecShuffle == ShuffleInit /\ [][ShuffleNext]_vars

\* The reconstructed values of the cards pushed so far.
CardValues ==
    Vec([i \in 1..Len(card_share_values) |-> output_wire(card_share_values[i])],
        Len(card_share_values))

Distinct(seq) ==
    \A i \in 1..Len(seq) : \A j \in 1..Len(seq) : i # j => seq[i] # seq[j]

\* The claim's cap on the iterations of the drawing loop (10,000 in the spec).
TrialCap == 4

\* C1: whenever shuffle_deck returns, it returns exactly DeckSize card wires
\* whose reconstructed values are pairwise distinct elements of H.
C1_ShuffleReturnsDistinctCardsOfH ==
    pc = "shuffle_done" =>
        /\ Len(card_share_values) = DeckSize
        /\ \A i \in 1..DeckSize : CardValues[i] \in H
        /\ Distinct(CardValues)

\* C1 witness: shuffle_deck returned after the loop rejected a repeated card.
C1_Witness ==
    /\ pc = "shuffle_done"
    /\ trials > DeckSize - NFixed
    /\ \E k \in Parties \ {1} : samples[k] # 0

\* C6 (as claimed): the drawing loop stops at the cap: it never runs more than
\* TrialCap iterations, and when the cap is reached with cards still missing
\* the shuffle has aborted instead of being ready to draw again.
C6_DrawLoopIsCapped ==
    /\ trials <= TrialCap
    /\ (trials = TrialCap /\ Len(card_share_values) < DeckSize) => pc = "panic"

\* ------------------------------------ evaluator (shares of polynomials)
\* A polynomial share is held as the tuple of the parties' local polynomials.

\* add_g1_elements_from_all_parties: the sum of the parties' G1 elements.
add_g1_elements_from_all_parties(g1_shares) == SumTo(g1_shares, NParties)

\* The local values of party k for a vector of wires (card_share_values, ...).
LocalValues(wires, k) == Vec([i \in 1..Len(wires) |-> wires[i][k]], Len(wires))

\* share_poly_eval: every party evaluates its local polynomial at z.
share_poly_eval(share_poly, z) ==
    Vec([k \in Parties |-> evaluate(share_poly[k], z)], NParties)

eval_proof_without_division(share_poly, z) ==
    add_g1_elements_from_all_parties(
        Vec([k \in Parties |-> commit_poly(share_poly[k])], NParties))

\* eval_proof_with_share_poly: every party divides its local polynomial by
\* (X - z) and commits to the quotient; the commitments are summed.
eval_proof_with_share_poly(share_poly, z) ==
    add_g1_elements_from_all_parties(
        Vec([k \in Parties |-> commit_poly(divide_by_linear(share_poly[k], z))], NParties))

\* The evaluation domain of share_poly_mult: the powers of a generator of F*
\* (FieldOrder - 1 >= 2 * DeckSize points).
MultDomainSize == FieldOrder - 1

MultDomainGen ==
    CHOOSE r \in 1..(FieldOrder - 1) :
        /\ SubgroupOrder(r) = MultDomainSize
        /\ \A u \in 1..(r - 1) : SubgroupOrder(u) # MultDomainSize

MultDomain ==
    Vec([j \in 1..MultDomainSize |-> compute_power(MultDomainGen, j - 1)], MultDomainSize)

InterpolateOverMultDomain(evals) ==
    Vec([c \in 1..MultDomainSize |->
            FMul(FInv(MultDomainSize % FieldOrder),
                 SumTo([j \in 1..MultDomainSize |->
                          FMul(evals[j], FInv(compute_power(MultDomain[j], c - 1)))],
                       MultDomainSize))],
        MultDomainSize)

\* share_poly_mult that multiplies the parties' local polynomials, party by
\* party, without a Beaver triple.
share_poly_mult_locally(f_share, g_share, tr) ==
    Vec([k \in Parties |-> PolyMul(f_share[k], g_share[k])], NParties)

\* share_poly_mult: evaluate both shares on the domain, multiply the values
\* point by point with mult, interpolate every party's products back.
share_poly_mult(f_share, g_share, tr) ==
    LET prod == Vec([j \in 1..MultDomainSize |->
                        mult(share_poly_eval(f_share, MultDomain[j]),
                             share_poly_eval(g_share, MultDomain[j]), tr)],
                    MultDomainSize)
    IN  Vec([k \in Parties |-> InterpolateOverMultDomain(LocalValues(prod, k))], NParties)

\* utils::fs_hash(blobs, 1)[0]: a deterministic hash to F.  The model holds the
\* answers given so far; a blob sequence not asked before may hash to any value.
FsAnswers(table, query) ==
    IF query \in DOMAIN table THEN {table[query]} ELSE F

\* fs_hash(blobs, k): as FsAnswers, with the answers a fresh query may get.
FsAnswersTo(table, query, answers) ==
    IF query \in DOMAIN table THEN {table[query]} ELSE answers

FsRecord(table, query, answer) ==
    [q \in DOMAIN table \cup {query} |-> IF q = query THEN answer ELSE table[q]]

\* ------------------------------------- compute_permutation_argument
v_evals_all_one == Vec([i \in 1..DeckSize |-> 1], DeckSize)

\* main.rs:306-313: the public polynomial v and its commitment.
v_evals == Vec([i \in 1..DeckSize |-> OmegaPow[i - 1]], DeckSize)
v_poly == interpolate_poly_over_mult_subgroup(v_evals)
v_com == commit_poly(v_poly)

\* main.rs:295-301: the commitment to f.
PermCommitF(cards) ==
    add_g1_elements_from_all_parties(
        Vec([k \in Parties |->
                commit_poly(interpolate_poly_over_mult_subgroup(LocalValues(cards, k)))],
            NParties))

RECURSIVE ProductTo(_, _)
ProductTo(f, n) ==
    IF n = 0 THEN 1 ELSE FMul(f[n], ProductTo(f, n - 1))

PermPanic == [ok |-> FALSE]

\* The masks with b_i = r_i / r_0 instead of r_(i+1) / r_0.
PermMasksUnshifted(smp, rs, ht, tr) ==
    LET h_t == Share(ht, smp)
        r_is == Vec([j \in 1..(DeckSize + 1) |-> Share(rs[j - 1], smp)], DeckSize + 1)
        inv_ok == \A j \in 1..(DeckSize + 1) : ~inv_fails(r_is[j], h_t, tr)
        r_inv_is == Vec([j \in 1..(DeckSize + 1) |-> inv(r_is[j], h_t, tr)], DeckSize + 1)
        b_is == Vec([i \in 1..DeckSize |-> mult(r_inv_is[1], r_is[i], tr)], DeckSize)
    IN  IF ~inv_ok THEN PermPanic
        ELSE [ok |-> TRUE, r_is |-> r_is, r_inv_is |-> r_inv_is, b_is |-> b_is]

\* main.rs:253-292: the randomizers r_0..r_DeckSize, their inverses and the
\* b_i.  rs are the values ran() gives the randomizers, ht the mask of the
\* inversions, tr the Beaver triple.  r_is[i + 1] and r_inv_is[i + 1] are
\* r_i and 1/r_i of the source.
PermMasks(smp, rs, ht, tr) ==
    LET h_t == Share(ht, smp)
        r_is == Vec([j \in 1..(DeckSize + 1) |-> Share(rs[j - 1], smp)], DeckSize + 1)
        inv_ok == \A j \in 1..(DeckSize + 1) : ~inv_fails(r_is[j], h_t, tr)
        r_inv_is == Vec([j \in 1..(DeckSize + 1) |-> inv(r_is[j], h_t, tr)], DeckSize + 1)
        b_is == Vec([i \in 1..DeckSize |-> mult(r_inv_is[1], r_is[i + 1], tr)], DeckSize)
    IN  IF ~inv_ok THEN PermPanic
        ELSE [ok |-> TRUE, r_is |-> r_is, r_inv_is |-> r_inv_is, b_is |-> b_is]

\* main.rs:294-352: the commitments to f and g, y1 the challenge hashed from
\* (v_com, f_com), and the assertion that g_com is f_com + [y1].
PermCommitG(cards, y1) ==
    LET f_com == PermCommitF(cards)
        h_g_shares == Vec([i \in 1..DeckSize |-> clear_add(cards[i], y1)], DeckSize)
        g_share_poly ==
            Vec([k \in Parties |->
                    interpolate_poly_over_mult_subgroup(LocalValues(h_g_shares, k))],
                NParties)
        g_com == add_g1_elements_from_all_parties(
                     Vec([k \in Parties |-> commit_poly(g_share_poly[k])], NParties))
        g_com_verifier == FAdd(f_com, commit_poly(<< y1 >>))
    IN  IF g_com # g_com_verifier THEN PermPanic
        ELSE [ok |-> TRUE, f_com |-> f_com, h_g_shares |-> h_g_shares,
              g_share_poly |-> g_share_poly, g_com |-> g_com]

\* The step with the inverse of a zero h_i taken as zero, without a panic.
PermComputeTUnguarded(m, g, y1, tr, kt) ==
    LET h_evals == Vec([i \in 1..DeckSize |-> FAdd(v_evals[i], y1)], DeckSize)
        h_poly == interpolate_poly_over_mult_subgroup(h_evals)
        t_prime_is ==
            Vec([i \in 1..DeckSize |->
                    LET h_h_inv_g_i == scale(g.h_g_shares[i],
                                             IF h_evals[i] = 0 THEN 0
                                             ELSE FInv(h_evals[i]))
                        s_prime_i == mult(m.r_is[i], h_h_inv_g_i, tr)
                    IN  output_wire(mult(m.r_inv_is[i + 1], s_prime_i, tr))],
                DeckSize)
        t_is == Vec([i \in 1..DeckSize |->
                        scale(m.b_is[i], FMul(kt, ProductTo(t_prime_is, i)))],
                    DeckSize)
        t_share_poly ==
            Vec([k \in Parties |->
                    interpolate_poly_over_mult_subgroup(LocalValues(t_is, k))],
                NParties)
        t_com == add_g1_elements_from_all_parties(
                     Vec([k \in Parties |-> commit_poly(t_share_poly[k])], NParties))
    IN  IF ~m.ok THEN PermPanic
        ELSE IF ~g.ok THEN PermPanic
        ELSE [ok |-> TRUE, h_poly |-> h_poly, t_prime_is |-> t_prime_is,
              t_is |-> t_is, t_share_poly |-> t_share_poly, t_com |-> t_com,
              f_com |-> g.f_com, g_com |-> g.g_com, g_share_poly |-> g.g_share_poly]

\* main.rs:354-433: h = v + y1, the opened t'_i, the shares t_i and the
\* commitment to t, after the steps m and g.  kt is the constant a prover
\* multiplies t by (1 for the prover of the source).
PermComputeT(m, g, y1, tr, kt) ==
    LET h_evals == Vec([i \in 1..DeckSize |-> FAdd(v_evals[i], y1)], DeckSize)
        h_poly == interpolate_poly_over_mult_subgroup(h_evals)
        h_ok == \A i \in 1..DeckSize : h_evals[i] # 0
        t_prime_is ==
            Vec([i \in 1..DeckSize |->
                    LET h_h_inv_g_i == scale(g.h_g_shares[i], FInv(h_evals[i]))
                        s_prime_i == mult(m.r_is[i], h_h_inv_g_i, tr)
                    IN  output_wire(mult(m.r_inv_is[i + 1], s_prime_i, tr))],
                DeckSize)
        t_is == Vec([i \in 1..DeckSize |->
                        scale(m.b_is[i], FMul(kt, ProductTo(t_prime_is, i)))],
                    DeckSize)
        t_share_poly ==
            Vec([k \in Parties |->
                    interpolate_poly_over_mult_subgroup(LocalValues(t_is, k))],
                NParties)
        t_com == add_g1_elements_from_all_parties(
                     Vec([k \in Parties |-> commit_poly(t_share_poly[k])], NParties))
    IN  IF ~m.ok THEN PermPanic
        ELSE IF ~g.ok THEN PermPanic
        ELSE IF ~h_ok THEN PermPanic
        ELSE [ok |-> TRUE, h_poly |-> h_poly, t_prime_is |-> t_prime_is,
              t_is |-> t_is, t_share_poly |-> t_share_poly, t_com |-> t_com,
              f_com |-> g.f_com, g_com |-> g.g_com, g_share_poly |-> g.g_share_poly]

\* main.rs:435-462: d = h * t - g * t(X/w), the assertion that d vanishes on
\* H, the quotient q by X^DeckSize - 1 and its commitment, after the step t;
\* the result is what the prover holds when q is committed.
PermComputeQ(t, tr) ==
    LET tx_by_omega_share_poly ==
            Vec([k \in Parties |-> poly_domain_div_w(t.t_share_poly[k])], NParties)
        h_t_share_poly ==
            Vec([k \in Parties |-> PolyMul(t.h_poly, t.t_share_poly[k])], NParties)
        g_tx_by_omega_share_poly ==
            share_poly_mult(t.g_share_poly, tx_by_omega_share_poly, tr)
        d_share_poly ==
            Vec([k \in Parties |->
                    PolySub(h_t_share_poly[k], g_tx_by_omega_share_poly[k])],
                NParties)
        d_evals == Vec([i \in 1..DeckSize |->
                           output_wire(share_poly_eval(d_share_poly, OmegaPow[i - 1]))],
                       DeckSize)
        d_ok == \A i \in 1..DeckSize : d_evals[i] = 0
        q_share_poly ==
            Vec([k \in Parties |-> divide_by_vanishing_poly(d_share_poly[k])[1]], NParties)
        q_com == add_g1_elements_from_all_parties(
                     Vec([k \in Parties |-> commit_poly(q_share_poly[k])], NParties))
    IN  IF ~t.ok THEN PermPanic
        ELSE IF ~d_ok THEN PermPanic
        ELSE [ok |-> TRUE, f_com |-> t.f_com, g_com |-> t.g_com, t_com |-> t.t_com,
              q_com |-> q_com, t_share_poly |-> t.t_share_poly,
              g_share_poly |-> t.g_share_poly, q_share_poly |-> q_share_poly,
              d_share_poly |-> d_share_poly]

\* main.rs:253-462: the prover up to the commitment to q.
PermRound1(cards, smp, rs, ht, tr, y1, kt) ==
    PermComputeQ(PermComputeT(PermMasks(smp, rs, ht, tr), PermCommitG(cards, y1),
                              y1, tr, kt),
                 tr)

\* The blobs hashed to the second challenge (main.rs:477 and 559).
Hash2Query(f_com, q_com, t_com, g_com) == << v_com, f_com, q_com, t_com, g_com >>

\* main.rs:464-517: the openings at w^63, y2 and y2/w and the proof.
PermRound2(r1, y2) ==
    LET w == multiplicative_subgroup_of_size
        w63 == compute_power(w, DeckSize - 1)
        y2_by_w == FDiv(y2, w)
    IN  [y1 |-> output_wire(share_poly_eval(r1.t_share_poly, w63)),
         y2 |-> output_wire(share_poly_eval(r1.t_share_poly, y2)),
         y3 |-> output_wire(share_poly_eval(r1.t_share_poly, y2_by_w)),
         y4 |-> output_wire(share_poly_eval(r1.g_share_poly, y2)),
         y5 |-> output_wire(share_poly_eval(r1.q_share_poly, y2)),
         pi_1 |-> eval_proof_with_share_poly(r1.t_share_poly, w63),
         pi_2 |-> eval_proof_with_share_poly(r1.t_share_poly, y2),
         pi_3 |-> eval_proof_with_share_poly(r1.t_share_poly, y2_by_w),
         pi_4 |-> eval_proof_with_share_poly(r1.g_share_poly, y2),
         pi_5 |-> eval_proof_with_share_poly(r1.q_share_poly, y2),
         f_com |-> r1.f_com,
         q_com |-> r1.q_com,
         t_com |-> r1.t_com]

\* --------------------------------------- verify_permutation_argument
verify_without_opening_of_y2(proof, hash1, hash2) ==
    LET w == multiplicative_subgroup_of_size
        w63 == compute_power(w, DeckSize - 1)
        g_com == FAdd(proof.f_com, commit_poly(<< hash1 >>))
        b1 == kzg_check(proof.t_com, w63, proof.y1, proof.pi_1)
        b2 == kzg_check(proof.t_com, hash2, proof.y2, proof.pi_2)
        b3 == kzg_check(proof.t_com, FDiv(hash2, w), proof.y3, proof.pi_3)
        b4 == kzg_check(g_com, hash2, proof.y4, proof.pi_4)
        b5 == kzg_check(proof.q_com, hash2, proof.y5, proof.pi_5)
        tmp1 == FMul(proof.y2, FAdd(evaluate(v_poly, hash2), hash1))
        tmp2 == FMul(proof.y3, proof.y4)
        tmp3 == FMul(proof.y5, FSub(compute_power(hash2, DeckSize), 1))
    IN  b1 /\ b3 /\ b4 /\ b5 /\ (FSub(tmp1, tmp2) = tmp3) /\ (proof.y1 = 1)

verify_without_wraparound(proof, hash1, hash2) ==
    LET w == multiplicative_subgroup_of_size
        w63 == compute_power(w, DeckSize - 1)
        g_com == FAdd(proof.f_com, commit_poly(<< hash1 >>))
        b1 == kzg_check(proof.t_com, w63, proof.y1, proof.pi_1)
        b2 == kzg_check(proof.t_com, hash2, proof.y2, proof.pi_2)
        b3 == kzg_check(proof.t_com, FDiv(hash2, w), proof.y3, proof.pi_3)
        b4 == kzg_check(g_com, hash2, proof.y4, proof.pi_4)
        b5 == kzg_check(proof.q_com, hash2, proof.y5, proof.pi_5)
        tmp1 == FMul(proof.y2, FAdd(evaluate(v_poly, hash2), hash1))
        tmp2 == FMul(proof.y3, proof.y4)
        tmp3 == FMul(proof.y5, FSub(compute_power(hash2, DeckSize), 1))
    IN  b1 /\ b2 /\ b3 /\ b4 /\ b5 /\ (FSub(tmp1, tmp2) = tmp3)

\* main.rs:520-621, with hash1 and hash2 the two fs_hash results.
verify_permutation_argument(proof, hash1, hash2) ==
    LET w == multiplicative_subgroup_of_size
        w63 == compute_power(w, DeckSize - 1)
        g_com == FAdd(proof.f_com, commit_poly(<< hash1 >>))
        b1 == kzg_check(proof.t_com, w63, proof.y1, proof.pi_1)
        b2 == kzg_check(proof.t_com, hash2, proof.y2, proof.pi_2)
        b3 == kzg_check(proof.t_com, FDiv(hash2, w), proof.y3, proof.pi_3)
        b4 == kzg_check(g_com, hash2, proof.y4, proof.pi_4)
        b5 == kzg_check(proof.q_com, hash2, proof.y5, proof.pi_5)
        tmp1 == FMul(proof.y2, FAdd(evaluate(v_poly, hash2), hash1))
        tmp2 == FMul(proof.y3, proof.y4)
        tmp3 == FMul(proof.y5, FSub(compute_power(hash2, DeckSize), 1))
    IN  b1 /\ b2 /\ b3 /\ b4 /\ b5 /\ (FSub(tmp1, tmp2) = tmp3) /\ (proof.y1 = 1)

\* ------------------------------------------- the permutation argument
\* All orders of the elements of a set, as sequences.
RECURSIVE Orders(_)
Orders(S) ==
    IF S = {} THEN {<< >>}
    ELSE UNION {{<< x >> \o o : o \in Orders(S \ {x})} : x \in S}

\* What shuffle_deck returns: the fixed cards first, then the other elements of
\* H in some order, each shared between the parties.
ShuffleOutputs(smp) ==
    {Vec([i \in 1..NFixed |-> fixed_wire_handle(OmegaPow[FirstFixed + i - 1])], NFixed)
        \o Vec([i \in 1..Len(o) |-> Share(o[i], smp)], Len(o)) :
     o \in Orders(H \ {OmegaPow[i] : i \in FirstFixed..(DeckSize - 1)})}

\* The random tape of one invocation, by two values a and b of ran(): the
\* mask of the inversions is a, the randomizer r_i is 1 + (a * i + b) mod
\* (|F| - 1), the Beaver triple is (a, b, a * b).
TapeMask(a, b) == a
TapeRandomizers(a, b) == [i \in 0..DeckSize |-> 1 + ((a * i + b) % (FieldOrder - 1))]
TapeTriple(a, b, smp) == << Share(a, smp), Share(b, smp), Share(FMul(a, b), smp) >>

PermInit ==
    /\ pc = "perm_start"
    /\ samples \in SamplePatterns
    /\ sk = fixed_wire_handle(0)
    /\ card_share_values \in ShuffleOutputs(samples)
    /\ prfs = {}
    /\ trials = 0
    /\ fs_table = << >>
    /\ perm_proof = NoProof
    /\ verified = FALSE
    /\ faults = {}
    /\ enc_proof = NoProof
    /\ MainIdle
    /\ OthersIdle

\* Party 0 overwrites its shares of up to MaxTampered cards with a share
\* value before the argument is computed.
PermTamperCard ==
    /\ pc = "perm_start"
    /\ faults = {}
    /\ \E S \in SUBSET (1..DeckSize), v \in ShareVals :
        /\ S # {}
        /\ Cardinality(S) <= MaxTampered
        /\ \A i \in S : v # card_share_values[i][1]
        /\ card_share_values' =
               Vec([i \in 1..DeckSize |->
                       IF i \in S THEN [card_share_values[i] EXCEPT ![1] = v]
                       ELSE card_share_values[i]],
                   DeckSize)
    /\ faults' = {"card"}
    /\ UNCHANGED << pc, samples, sk, prfs, trials, fs_table, perm_proof, verified, encVars, mainVars, otherVars >>

\* main.rs:464-517: the second challenge is hashed and the proof returned, or
\* the run has panicked before.  table holds the hashes up to the first one.
PermEmit(r1, table) ==
    IF ~r1.ok
    THEN /\ pc' = "panic"
         /\ UNCHANGED << fs_table, perm_proof >>
    ELSE \E y2 \in FsAnswers(table, Hash2Query(r1.f_com, r1.q_com, r1.t_com, r1.g_com)) :
            /\ pc' = "perm_proved"
            /\ perm_proof' = PermRound2(r1, y2)
            /\ fs_table' = FsRecord(table,
                                    Hash2Query(r1.f_com, r1.q_com, r1.t_com, r1.g_com), y2)

\* main.rs:108-112: compute_permutation_argument on the cards.  kt = 1 is the
\* prover of the source; another kt is a prover that commits to kt * t.
PermProveWith(kt) ==
    /\ pc = "perm_start"
    /\ \E a \in RanVals, b \in RanVals :
        LET q1 == << v_com, PermCommitF(card_share_values) >>
        IN  \E y1 \in FsAnswers(fs_table, q1) :
            PermEmit(PermRound1(card_share_values, samples, TapeRandomizers(a, b),
                                TapeMask(a, b), TapeTriple(a, b, samples), y1, kt),
                     FsRecord(fs_table, q1, y1))
    /\ UNCHANGED << samples, shuffleVars, verified, encVars, mainVars, otherVars >>

PermProve ==
    /\ PermProveWith(1)
    /\ UNCHANGED faults

PermProveScaledT ==
    /\ faults = {}
    /\ \E kt \in F \ {1} : PermProveWith(kt)
    /\ faults' = {"t"}

\* The opening y2 of the proof is replaced by another value.
PermTamperY2 ==
    /\ pc = "perm_proved"
    /\ faults = {}
    /\ \E v \in F \ {perm_proof.y2} : perm_proof' = [perm_proof EXCEPT !.y2 = v]
    /\ faults' = {"y2"}
    /\ UNCHANGED << pc, samples, shuffleVars, fs_table, verified, encVars, mainVars, otherVars >>

\* main.rs:114: verify_permutation_argument(&perm_proof).
PermVerify ==
    /\ pc = "perm_proved"
    /\ LET q1 == << v_com, perm_proof.f_com >>
       IN  \E hash1 \in FsAnswers(fs_table, q1) :
           LET g_com == FAdd(perm_proof.f_com, commit_poly(<< hash1 >>))
               q2 == Hash2Query(perm_proof.f_com, perm_proof.q_com, perm_proof.t_com, g_com)
           IN  \E hash2 \in FsAnswers(FsRecord(fs_table, q1, hash1), q2) :
               /\ verified' = verify_permutation_argument(perm_proof, hash1, hash2)
               /\ fs_table' = FsRecord(FsRecord(fs_table, q1, hash1), q2, hash2)
    /\ pc' = "perm_verified"
    /\ UNCHANGED << samples, shuffleVars, perm_proof, faults, encVars, mainVars, otherVars >>

PermNext ==
    \/ PermTamperCard
    \/ PermProve
    \/ PermProveScaledT
    \/ PermTamperY2
    \/ PermVerify

SpecPerm == PermInit /\ [][PermNext]_vars

\* The cards are a bijection with (w^0, ..., w^(DeckSize-1)).
IsPermutationOfH(values) ==
    /\ Len(values) = DeckSize
    /\ \A c \in H : \E i \in 1..DeckSize : values[i] = c

\* C2: in every honest run (cards as shuffle_deck returns them, the prover of
\* the source, nothing altered) verify_permutation_argument returns true.
C2_HonestPermutationProofVerifies ==
    (pc = "perm_verified" /\ faults = {}) => verified

\* C2 witness: an honest run was verified, with cards out of the canonical
\* order and shares spread over the parties.
C2_Witness ==
    /\ pc = "perm_verified"
    /\ faults = {}
    /\ verified
    /\ \E i \in 1..DeckSize : CardValues[i] # OmegaPow[i - 1]
    /\ \A k \in Parties \ {1} : samples[k] # 0

\* The first challenge of the verified proof: the hash of (v_com, f_com).
Gamma1 == fs_table[<< v_com, perm_proof.f_com >>]

\* The grand products at the first challenge: of the cards, and of H.
CardProduct ==
    ProductTo(Vec([i \in 1..DeckSize |-> FAdd(CardValues[i], Gamma1)], DeckSize), DeckSize)
HProduct ==
    ProductTo(Vec([i \in 1..DeckSize |-> FAdd(OmegaPow[i - 1], Gamma1)], DeckSize), DeckSize)

\* C8 (as claimed): a proof computed for the cards is accepted if and only if
\* the reconstructed cards are a bijection with H.
C8_AcceptedIffPermutation ==
    (pc = "perm_verified" /\ faults \subseteq {"card"}) =>
        (verified <=> IsPermutationOfH(CardValues))

\* C8 (amended): a proof computed for the cards is accepted if and only if
\* the product of (card_i + y1) equals the product of (w^i + y1) at the first
\* challenge y1; every bijection with H is accepted, and a vector that is
\* not one is accepted exactly when y1 is a root of the difference.
C8_AcceptedIffProductsAgreeAtChallenge ==
    (pc = "perm_verified" /\ faults \subseteq {"card"}) =>
        /\ verified <=> (CardProduct = HProduct)
        /\ IsPermutationOfH(CardValues) => verified

\* C8 witness: a proof for cards that are not a bijection with H was computed
\* and the verifier rejected it.
C8_Witness ==
    /\ pc = "perm_verified"
    /\ faults = {"card"}
    /\ ~IsPermutationOfH(CardValues)
    /\ ~verified
    /\ CardProduct # HProduct

\* C9: an accepted proof whose opening y2 is changed to another value is
\* rejected.
C9_ChangedY2IsRejected ==
    (pc = "perm_verified" /\ faults = {"y2"}) => ~verified

\* C9 witness: a proof was rejected that is accepted, under the same two
\* hashes, once its opening y2 is put back.
C9_Witness ==
    /\ pc = "perm_verified"
    /\ faults = {"y2"}
    /\ ~verified
    /\ \E v \in F \ {perm_proof.y2} :
        verify_permutation_argument(
            [perm_proof EXCEPT !.y2 = v], Gamma1,
            fs_table[Hash2Query(perm_proof.f_com, perm_proof.q_com, perm_proof.t_com,
                                FAdd(perm_proof.f_com, commit_poly(<< Gamma1 >>)))])

\* C10: a proof for k * t with k # 1 opens y1 # 1, and every proof with
\* y1 # 1 is rejected.
C10_Y1NotOneIsRejected ==
    pc = "perm_verified" =>
        /\ (faults = {"t"} => perm_proof.y1 # 1)
        /\ (perm_proof.y1 # 1 => ~verified)

\* C10 witness: a proof for k * t with k # 1 was rejected.
C10_Witness ==
    pc = "perm_verified" /\ faults = {"t"} /\ perm_proof.y1 > 1 /\ ~verified

\* ------------------------------------------------ groups and pairing
\* G1::generator() and Gt::generator(), in the exponent.
G1Generator == 1
GtGenerator == 1

\* The public keys pk of G2 the runs are given are 1..MaxPk.
MaxPk == 2
PkVals == 1..MaxPk

\* fs_hash(.., 64) answers with one scalar per card, each in 0..MaxBatch.
MaxBatch == 1
BatchVectors == [1..DeckSize -> 0..MaxBatch]

\* Pairing::pairing: e(a * G1, b * G2) = (a * b) * Gt.
pairing(a, b) == FMul(a, b)

\* exp_and_reveal_g1 / exp_and_reveal_gt with one base and one handle: every
\* party raises the base to its share, the results are multiplied together.
exp_and_reveal(base, w) ==
    SumTo(Vec([k \in Parties |-> FMul(base, w[k])], NParties), NParties)

\* main.rs:825-827: the hash of an identity to G1 (F::from(id) * G1).
hash_id(id) == FMul(G1Generator, id % FieldOrder)

\* main.rs:121-125: the identities 0 .. DeckSize - 1.
MainIds == Vec([i \in 1..DeckSize |-> i - 1], DeckSize)

\* dist_ibe_encrypt: c1 = g^r, c2 = e(H(id), pk)^r * gt^card, both revealed.
dist_ibe_encrypt(msg, r, pk, id) ==
    << exp_and_reveal(G1Generator, r),
       FAdd(exp_and_reveal(pairing(hash_id(id), pk), r),
            exp_and_reveal(GtGenerator, msg)) >>

\* eval_proof: every party's share of the plain evaluation proof of f at z:
\* the commitment to its local polynomial divided by (X - z).
eval_proof(cards, z) ==
    Vec([k \in Parties |->
            commit_poly(divide_by_linear(
                interpolate_poly_over_mult_subgroup(LocalValues(cards, k)), z))],
        NParties)

\* ------------------------------------------------- dist_sigma_proof
\* main.rs:637-657: the first message, z2 the wire of the mask.
SigmaMessage1(base_1, base_2, base_3, z2) ==
    [a1 |-> exp_and_reveal(base_1, z2),
     a2 |-> exp_and_reveal(base_2, z2),
     a3 |-> exp_and_reveal(base_3, z2),
     a4 |-> exp_and_reveal(GtGenerator, z2)]

\* The blobs hashed to the challenge of the sigma proof (main.rs:668, 710).
SigmaQuery(a) == << a.a1, a.a2, a.a3, a.a4 >>

\* The sum of the witness wires without the batching scalars.
RECURSIVE LinCombUnscaled(_, _, _)
LinCombUnscaled(wit_1_handles, lin_comb_ran, n) ==
    IF n = 1 THEN wit_1_handles[1]
    ELSE add(wit_1_handles[n], LinCombUnscaled(wit_1_handles, lin_comb_ran, n - 1))

\* main.rs:676-681: the wire of sum_i lin_comb_ran[i] * wit_1[i].
RECURSIVE LinComb(_, _, _)
LinComb(wit_1_handles, lin_comb_ran, n) ==
    IF n = 1 THEN scale(wit_1_handles[1], lin_comb_ran[1])
    ELSE add(scale(wit_1_handles[n], lin_comb_ran[n]),
             LinComb(wit_1_handles, lin_comb_ran, n - 1))

\* main.rs:624-688, with z2 the mask of line 636 and gamma the hash of line 668.
dist_sigma_proof(base_1, base_2, base_3, wit_1_handles, wit_2_handle, lin_comb_ran, z2, gamma) ==
    LET a == SigmaMessage1(base_1, base_2, base_3, z2)
        h_y == add(scale(wit_2_handle, gamma), z2)
        h_x == add(scale(LinComb(wit_1_handles, lin_comb_ran, DeckSize), gamma), z2)
    IN  [a1 |-> a.a1, a2 |-> a.a2, a3 |-> a.a3, a4 |-> a.a4,
         x |-> output_wire(h_x), y |-> output_wire(h_y)]

\* main.rs:692-736, with gamma the hash of line 705.
local_verify_sigma_proof(c, d_batch, g, c_1, e_batch, c2_batch, sigma, gamma) ==
    LET check1 == FMul(c, sigma.x) = FAdd(FMul(d_batch, gamma), sigma.a1)
        check2 == FMul(g, sigma.y) = FAdd(FMul(c_1, gamma), sigma.a2)
        check3 == FAdd(FMul(e_batch, sigma.y), FMul(GtGenerator, sigma.x))
                      = FAdd(FAdd(FMul(c2_batch, gamma), sigma.a4), sigma.a3)
    IN  check1 /\ check2 /\ check3

\* ------------------------------------------------ encrypt_and_prove
\* main.rs:745-809: the proof before the sigma proof.  r and z_is are the
\* wires of the common randomness and of the masks, tr the Beaver triple.
EncRound1(cards, card_commitment, pk, ids, r, z_is, tr) ==
    LET pi_plain_vec ==
            Vec([i \in 1..DeckSize |-> eval_proof(cards, OmegaPow[i - 1])], DeckSize)
        ct == Vec([i \in 1..DeckSize |-> dist_ibe_encrypt(cards[i], r, pk, ids[i])],
                  DeckSize)
        d_is == Vec([i \in 1..DeckSize |-> exp_and_reveal(card_commitment, z_is[i])],
                    DeckSize)
        v_is == Vec([i \in 1..DeckSize |-> output_wire(mult(z_is[i], cards[i], tr))],
                    DeckSize)
        pi_is == Vec([i \in 1..DeckSize |->
                         add_g1_elements_from_all_parties(
                             Vec([k \in Parties |-> FMul(pi_plain_vec[i][k], z_is[i][k])],
                                 NParties))],
                     DeckSize)
    IN  [pk |-> pk,
         ids |-> ids,
         card_commitment |-> card_commitment,
         masked_commitments |-> d_is,
         masked_evals |-> v_is,
         eval_proofs |-> pi_is,
         ciphertexts |-> ct]

\* SigmaProof on the wire: a1, a2, a3, a4, x, y; nothing for None.
sigma_to_bytes(sigma) ==
    IF sigma = NoProof THEN << >>
    ELSE << sigma.a1, sigma.a2, sigma.a3, sigma.a4, sigma.x, sigma.y >>

\* EncryptProof::to_bytes: the fields of the proof in the order of the wire
\* format, the sigma proof last.
to_bytes(proof) ==
    << proof.pk >> \o proof.ids \o << proof.card_commitment >>
        \o proof.masked_commitments \o proof.masked_evals \o proof.eval_proofs
        \o Vec([j \in 1..(2 * DeckSize) |-> proof.ciphertexts[(j + 1) \div 2][2 - (j % 2)]],
               2 * DeckSize)
        \o sigma_to_bytes(proof.sigma_proof)

\* main.rs:821-832 and 879-888: e_batch = sum_i s_i * e(H(id_i), pk).
EBatch(proof, s) ==
    SumTo(Vec([i \in 1..DeckSize |-> FMul(pairing(hash_id(proof.ids[i]), proof.pk), s[i])],
              DeckSize),
          DeckSize)

\* main.rs:834-860: the sigma proof is attached.
EncRound2(tmp_proof, r, z_is, s, z2, gamma) ==
    [tmp_proof EXCEPT !.sigma_proof =
        dist_sigma_proof(tmp_proof.card_commitment, G1Generator, EBatch(tmp_proof, s),
                         z_is, r, s, z2, gamma)]

\* ------------------------------------ local_verify_encryption_proof
all_c1_equal_unchecked(proof) == TRUE

\* main.rs:866-872: every ciphertext the loop reads has the c1 of the first.
all_c1_equal(proof) ==
    \A i \in 2..DeckSize :
        i <= Len(proof.ciphertexts) => proof.ciphertexts[i][1] = proof.ciphertexts[1][1]

\* main.rs:866-868: proof.ciphertexts[i] is indexed past the end of the vector
\* (no ciphertext at all, or fewer than DeckSize and no c1 that differs).
c1_loop_panics(proof) ==
    Len(proof.ciphertexts) < DeckSize /\ all_c1_equal(proof)

\* main.rs:881, 893, 913: proof.ids[i] or proof.masked_commitments[i] is
\* indexed past the end, or sigma_proof.as_ref().unwrap() finds None.
batch_loops_panic(proof) ==
    \/ Len(proof.ids) < DeckSize
    \/ Len(proof.masked_commitments) < DeckSize
    \/ proof.sigma_proof = NoProof

\* main.rs:890-895: d_batch = sum_i s_i * d_i.
DBatch(proof, s) ==
    SumTo(Vec([i \in 1..DeckSize |-> FMul(proof.masked_commitments[i], s[i])], DeckSize),
          DeckSize)

\* main.rs:897-902: c2_batch = sum_i c2_i.
C2Batch(proof) ==
    SumTo(Vec([i \in 1..DeckSize |-> proof.ciphertexts[i][2]], DeckSize), DeckSize)

\* main.rs:863-918, with s and gamma the two fs_hash results.
local_verify_encryption_proof(proof, s, gamma) ==
    IF ~all_c1_equal(proof) THEN FALSE
    ELSE local_verify_sigma_proof(proof.card_commitment, DBatch(proof, s), G1Generator,
                                  proof.ciphertexts[1][1], EBatch(proof, s),
                                  C2Batch(proof), proof.sigma_proof, gamma)

\* --------------------------------------------- the encryption proof
\* The random tape of one invocation, by two values a and b of ran(): the
\* common randomness r is a, the mask z2 of the sigma proof is b, the mask
\* z_i is a * i + b, the Beaver triple is (a, b, a * b).
EncTapeMasks(a, b, smp) ==
    Vec([i \in 1..DeckSize |-> Share((a * i + b) % FieldOrder, smp)], DeckSize)

EncInit ==
    /\ pc = "enc_start"
    /\ samples \in SamplePatterns
    /\ sk = fixed_wire_handle(0)
    /\ card_share_values \in ShuffleOutputs(samples)
    /\ prfs = {}
    /\ trials = 0
    /\ fs_table = << >>
    /\ perm_proof = NoProof
    /\ verified = FALSE
    /\ faults = {}
    /\ enc_proof = NoProof
    /\ MainIdle
    /\ OthersIdle

\* main.rs:821-860: the batching scalars are hashed from the proof so far (q1
\* its bytes), then the sigma proof is computed and attached.
EncEmit(tmp_proof, q1, r, z_is, z2) ==
    \E s \in FsAnswersTo(fs_table, q1, BatchVectors) :
        LET q2 == SigmaQuery(SigmaMessage1(tmp_proof.card_commitment, G1Generator,
                                           EBatch(tmp_proof, s), z2))
        IN  \E gamma \in FsAnswers(FsRecord(fs_table, q1, s), q2) :
            /\ enc_proof' = EncRound2(tmp_proof, r, z_is, s, z2, gamma)
            /\ fs_table' = FsRecord(FsRecord(fs_table, q1, s), q2, gamma)

\* main.rs:745-819: the proof before the sigma proof, with sigma_proof: None.
EncStart(tmp_proof, r, z_is, z2) ==
    EncEmit(tmp_proof, to_bytes(tmp_proof), r, z_is, z2)

\* main.rs:116-127: encrypt_and_prove on the cards, their commitment f_com, a
\* public key and the identities.
EncProve ==
    /\ pc = "enc_start"
    /\ \E pk \in PkVals, a \in RanVals, b \in RanVals :
        EncStart([sigma_proof |-> NoProof] @@
                     EncRound1(card_share_values, PermCommitF(card_share_values), pk,
                               MainIds, Share(a, samples), EncTapeMasks(a, b, samples),
                               TapeTriple(a, b, samples)),
                 Share(a, samples), EncTapeMasks(a, b, samples), Share(b, samples))
    /\ pc' = "enc_proved"
    /\ UNCHANGED << samples, shuffleVars, perm_proof, verified, faults, mainVars, otherVars >>

\* The c1 of one ciphertext after the first is replaced by another value.
EncTamperC1 ==
    /\ pc = "enc_proved"
    /\ faults = {}
    /\ \E i \in 2..DeckSize, v \in RanVals \ {enc_proof.ciphertexts[1][1]} :
        enc_proof' = [enc_proof EXCEPT !.ciphertexts[i][1] = v]
    /\ faults' = {"c1"}
    /\ UNCHANGED << pc, samples, shuffleVars, fs_table, perm_proof, verified, mainVars, otherVars >>

\* One evaluation proof pi_i is replaced by pi_(i+1).
EncTamperPi ==
    /\ pc = "enc_proved"
    /\ faults = {}
    /\ \E i \in 1..(DeckSize - 1) :
        /\ enc_proof.eval_proofs[i] # enc_proof.eval_proofs[i + 1]
        /\ enc_proof' = [enc_proof EXCEPT !.eval_proofs[i] = enc_proof.eval_proofs[i + 1]]
    /\ faults' = {"pi"}
    /\ UNCHANGED << pc, samples, shuffleVars, fs_table, perm_proof, verified, mainVars, otherVars >>

\* The sigma proof is taken out of the proof (sigma_proof: None).
EncDropSigma ==
    /\ pc = "enc_proved"
    /\ faults = {}
    /\ enc_proof' = [enc_proof EXCEPT !.sigma_proof = NoProof]
    /\ faults' = {"no_sigma"}
    /\ UNCHANGED << pc, samples, shuffleVars, fs_table, perm_proof, verified, mainVars, otherVars >>

\* One of the vectors of the proof is cut to fewer than DeckSize entries.
EncTruncate ==
    /\ pc = "enc_proved"
    /\ faults = {}
    /\ \E n \in {0, DeckSize - 1} :
        \/ enc_proof' = [enc_proof EXCEPT !.ciphertexts = SubSeq(@, 1, n)]
        \/ enc_proof' = [enc_proof EXCEPT !.masked_commitments = SubSeq(@, 1, n)]
        \/ enc_proof' = [enc_proof EXCEPT !.ids = SubSeq(@, 1, n)]
    /\ faults' = {"short"}
    /\ UNCHANGED << pc, samples, shuffleVars, fs_table, perm_proof, verified, mainVars, otherVars >>

\* main.rs:128: local_verify_encryption_proof(&encrypt_proof).  The hashes
\* are taken only after the test of the c1 (main.rs:866-872); an index past
\* the end of a vector and the unwrap of an absent sigma proof panic.
EncVerify ==
    /\ pc = "enc_proved"
    /\ IF c1_loop_panics(enc_proof)
       THEN /\ pc' = "panic"
            /\ UNCHANGED << verified, fs_table >>
       ELSE IF ~all_c1_equal(enc_proof)
       THEN /\ pc' = "enc_verified"
            /\ verified' = FALSE
            /\ UNCHANGED fs_table
       ELSE IF batch_loops_panic(enc_proof)
       THEN /\ pc' = "panic"
            /\ UNCHANGED << verified, fs_table >>
       ELSE LET q1 == to_bytes(enc_proof)
                q2 == SigmaQuery(enc_proof.sigma_proof)
            IN  \E s \in FsAnswersTo(fs_table, q1, BatchVectors) :
                \E gamma \in FsAnswers(FsRecord(fs_table, q1, s), q2) :
                    /\ pc' = "enc_verified"
                    /\ verified' = local_verify_encryption_proof(enc_proof, s, gamma)
                    /\ fs_table' = FsRecord(FsRecord(fs_table, q1, s), q2, gamma)
    /\ UNCHANGED << samples, shuffleVars, perm_proof, faults, enc_proof, mainVars, otherVars >>

EncNext ==
    \/ EncProve
    \/ EncTamperC1
    \/ EncTamperPi
    \/ EncDropSigma
    \/ EncTruncate
    \/ EncVerify

SpecEnc == EncInit /\ [][EncNext]_vars

\* Position i of the proof passes the check kzg_check(d_i, w^i, v_i, pi_i).
KzgCheckAt(proof, i) ==
    kzg_check(proof.masked_commitments[i], OmegaPow[i - 1], proof.masked_evals[i],
              proof.eval_proofs[i])

\* C3 (as claimed): in every honest run (cards as shuffle_deck returns them,
\* card_commitment = f_com, nothing altered) local_verify_encryption_proof
\* returns true.
C3_HonestEncryptProofVerifies ==
    (pc = "enc_verified" /\ faults = {}) => verified

\* C4 (as claimed): a proof in which kzg_check(d_i, w^i, v_i, pi_i) fails at
\* some position i is rejected.
C4_FailedKzgCheckIsRejected ==
    (pc = "enc_verified" /\ \E i \in 1..DeckSize : ~KzgCheckAt(enc_proof, i))
        => ~verified

\* C15 (as claimed): in the EncryptProof honest parties emit,
\* kzg_check(d_i, w^i, v_i, pi_i) holds at every position i.
C15_HonestEvalProofsPassKzgCheck ==
    (pc \in {"enc_proved", "enc_verified"} /\ faults = {})
        => \A i \in 1..DeckSize : KzgCheckAt(enc_proof, i)

\* C16 (as claimed): a verifier that is handed a proof ends with a boolean
\* result and never with a panic, also when the sigma proof is absent or a
\* vector of the proof has fewer than DeckSize entries.
C16_VerifiersReturnABoolean ==
    [][(pc \in {"perm_proved", "enc_proved"}) => (pc' # "panic")]_vars

\* C5: a proof in which some ciphertext after the first has a c1 other than
\* the first one's is rejected, whatever its other fields are.
C5_UnequalC1IsRejected ==
    (pc = "enc_verified"
        /\ \E i \in 2..DeckSize :
              enc_proof.ciphertexts[i][1] # enc_proof.ciphertexts[1][1])
        => ~verified

\* C5 witness: a proof with an altered c1 was rejected although its sigma
\* proof passes the three checks for some outcome of the batching hash.
C5_Witness ==
    /\ pc = "enc_verified"
    /\ faults = {"c1"}
    /\ ~verified
    /\ \E s \in BatchVectors :
        local_verify_sigma_proof(enc_proof.card_commitment, DBatch(enc_proof, s),
                                 G1Generator, enc_proof.ciphertexts[1][1],
                                 EBatch(enc_proof, s), C2Batch(enc_proof),
                                 enc_proof.sigma_proof,
                                 fs_table[SigmaQuery(enc_proof.sigma_proof)])

\* ------------------------------------------------------------- main
\* format!("{}/{}", prefix, i) and format!("pi_plain_{}", i).
FormatLabel(prefix, i) == prefix \o ToString(i)

\* The two labels of iteration i of a loop with two labelled operations.
LabelPairs(first, second) ==
    Vec([j \in 1..(2 * DeckSize) |->
            IF j % 2 = 1 THEN FormatLabel(first, (j - 1) \div 2)
            ELSE FormatLabel(second, (j - 1) \div 2)],
        2 * DeckSize)

\* main.rs:637-657: the labels of dist_sigma_proof.
dist_sigma_proof_labels == << "a1", "a2", "a3", "a4" >>

\* main.rs:936-964: the labels of test_sigma, in program order.
test_sigma_labels ==
    Vec([i \in 1..DeckSize |-> FormatLabel("test_D_/", i - 1)], DeckSize)
        \o << "test_c_1" >>
        \o LabelPairs("test_c2_/", "test_e_/")
        \o dist_sigma_proof_labels

\* main.rs:1034-1037: the labels of test_dist_kzg.
test_dist_kzg_labels == << "kzg_test_com", "kzg_test_pi" >>

\* main.rs:295-501: the labels of compute_permutation_argument.
compute_permutation_argument_labels ==
    << "perm_f", "perm_g", "t", "perm_q",
       "perm_pi_1", "perm_pi_2", "perm_pi_3", "perm_pi_4", "perm_pi_5" >>

\* main.rs:767-842: the labels of encrypt_and_prove, in program order.
encrypt_and_prove_labels ==
    Vec([i \in 1..DeckSize |-> FormatLabel("pi_plain_", i - 1)], DeckSize)
        \o LabelPairs("D_/", "pi_/")
        \o dist_sigma_proof_labels

\* main.rs:98-127: the labelled operations of one run of main on its
\* Evaluator (test_local_kzg, test_share_poly_mult, shuffle_deck and the two
\* verifiers pass no label).
MainLabels ==
    test_sigma_labels \o test_dist_kzg_labels
        \o compute_permutation_argument_labels \o encrypt_and_prove_labels

MainInit ==
    /\ pc = "main"
    /\ samples \in {[k \in 2..NParties |-> 0]}
    /\ sk = fixed_wire_handle(0)
    /\ card_share_values = << >>
    /\ prfs = {}
    /\ trials = 0
    /\ fs_table = << >>
    /\ perm_proof = NoProof
    /\ verified = FALSE
    /\ faults = {}
    /\ enc_proof = NoProof
    /\ MainIdle
    /\ OthersIdle

\* broadcast(label, bytes): party k sends its message of its next labelled
\* operation to all parties.
MainBroadcast(k) ==
    /\ pc = "main"
    /\ ~main_posted[k]
    /\ main_pos[k] < Len(MainLabels)
    /\ main_posted' = [main_posted EXCEPT ![k] = TRUE]
    /\ mailbox' = mailbox \cup {<< MainLabels[main_pos[k] + 1], k >>}
    /\ UNCHANGED << pc, samples, shuffleVars, permVars, encVars, main_pos, otherVars >>

\* collect(label): returns once all parties have contributed under the label.
MainCollect(k) ==
    /\ pc = "main"
    /\ main_posted[k]
    /\ \A j \in Parties : << MainLabels[main_pos[k] + 1], j >> \in mailbox
    /\ main_pos' = [main_pos EXCEPT ![k] = @ + 1]
    /\ main_posted' = [main_posted EXCEPT ![k] = FALSE]
    /\ UNCHANGED << pc, samples, shuffleVars, permVars, encVars, mailbox, otherVars >>

MainNext ==
    \E k \in Parties : MainBroadcast(k) \/ MainCollect(k)

SpecMain == MainInit /\ [][MainNext]_vars

\* The labelled operations party k has started.
LabelsStarted(k) == main_pos[k] + (IF main_posted[k] THEN 1 ELSE 0)

\* C7 (as claimed): within one run of main no party uses a label for two
\* labelled operations.
C7_NoLabelIsUsedTwice ==
    \A k \in Parties :
        \A i \in 1..LabelsStarted(k) : \A j \in 1..LabelsStarted(k) :
            i # j => MainLabels[i] # MainLabels[j]

\* ------------------------------------------------------- test_sigma
\* The variables of the protocol run while main runs one of its self-tests.
ProtocolIdle ==
    /\ sk = fixed_wire_handle(0)
    /\ card_share_values = << >>
    /\ prfs = {}
    /\ trials = 0
    /\ perm_proof = NoProof
    /\ enc_proof = NoProof
    /\ MainIdle

\* The bases a sigma proof is asked for are 1..MaxBase (and 0 for base_3).
MaxBase == 2

\* The vectors of DeckSize wires with values of ran().
WireVectors(smp) ==
    {Vec([i \in 1..DeckSize |-> Share(w[i], smp)], DeckSize) : w \in [1..DeckSize -> RanVals]}

\* main.rs:933-955: the statement test_sigma hands to the verifier:
\* d_batch = sum_i s_i * g^(w_i), c_1 = g^(w'), e_batch = sum_i s_i * gt and
\* c2_batch = sum_i s_i * (gt^(w_i) + gt^(w')).
TestSigmaStatement(wit_1_handles, wit_2_handle, lin_comb_ran) ==
    [d_batch |->
        SumTo(Vec([i \in 1..DeckSize |->
                      FMul(exp_and_reveal(G1Generator, wit_1_handles[i]), lin_comb_ran[i])],
                  DeckSize), DeckSize),
     c_1 |-> exp_and_reveal(G1Generator, wit_2_handle),
     e_batch |->
        SumTo(Vec([i \in 1..DeckSize |-> FMul(GtGenerator, lin_comb_ran[i])], DeckSize),
              DeckSize),
     c2_batch |->
        SumTo(Vec([i \in 1..DeckSize |->
                      FMul(FAdd(exp_and_reveal(GtGenerator, wit_1_handles[i]),
                                exp_and_reveal(GtGenerator, wit_2_handle)),
                           lin_comb_ran[i])],
                  DeckSize), DeckSize)]

\* The statement of test_sigma for any three bases: d_batch =
\* base_1^(sum_i s_i * w_i), c_1 = base_2^(w'), e_batch = base_3 and
\* c2_batch = gt^(sum_i s_i * w_i) * base_3^(w').
SigmaStatement(base_1, base_2, base_3, wit_1_handles, wit_2_handle, lin_comb_ran) ==
    [d_batch |->
        SumTo(Vec([i \in 1..DeckSize |->
                      FMul(exp_and_reveal(base_1, wit_1_handles[i]), lin_comb_ran[i])],
                  DeckSize), DeckSize),
     c_1 |-> exp_and_reveal(base_2, wit_2_handle),
     e_batch |-> base_3,
     c2_batch |->
        FAdd(SumTo(Vec([i \in 1..DeckSize |->
                           FMul(exp_and_reveal(GtGenerator, wit_1_handles[i]),
                                lin_comb_ran[i])],
                       DeckSize), DeckSize),
             exp_and_reveal(base_3, wit_2_handle))]

\* main.rs:924-955: test_sigma up to the call of dist_sigma_proof.
TestSigmaInputs(smp) ==
    {[name |-> "test_sigma", base_1 |-> G1Generator, base_2 |-> G1Generator,
      base_3 |-> TestSigmaStatement(w, w2, s).e_batch,
      wit_1_handles |-> w, wit_2_handle |-> w2, lin_comb_ran |-> s,
      statement |-> TestSigmaStatement(w, w2, s), proof |-> NoProof] :
        w \in WireVectors(smp), w2 \in {Share(v, smp) : v \in RanVals}, s \in BatchVectors}

\* The same with the three bases chosen freely.
SigmaInputs(smp) ==
    {[name |-> "sigma", base_1 |-> b[1], base_2 |-> b[2], base_3 |-> b[3],
      wit_1_handles |-> w, wit_2_handle |-> w2, lin_comb_ran |-> s,
      statement |-> SigmaStatement(b[1], b[2], b[3], w, w2, s), proof |-> NoProof] :
        b \in (1..MaxBase) \X (1..MaxBase) \X (0..MaxBase),
        w \in WireVectors(smp), w2 \in {Share(v, smp) : v \in RanVals}, s \in BatchVectors}

SigmaInit ==
    /\ pc = "sigma_start"
    /\ samples \in SamplePatterns
    /\ fs_table = << >>
    /\ verified = FALSE
    /\ faults = {}
    /\ test \in TestSigmaInputs(samples) \cup SigmaInputs(samples)
    /\ ProtocolIdle
    /\ RunIdle
    /\ NetIdle
    /\ PartiesIdle
    /\ ProverIdle

\* main.rs:957-964: dist_sigma_proof on the witnesses.
SigmaProve ==
    /\ pc = "sigma_start"
    /\ \E b \in RanVals :
        LET z2 == Share(b, samples)
            q == SigmaQuery(SigmaMessage1(test.base_1, test.base_2, test.base_3, z2))
        IN  \E gamma \in FsAnswers(fs_table, q) :
            /\ test' = [test EXCEPT !.proof =
                            dist_sigma_proof(test.base_1, test.base_2, test.base_3,
                                             test.wit_1_handles, test.wit_2_handle,
                                             test.lin_comb_ran, z2, gamma)]
            /\ fs_table' = FsRecord(fs_table, q, gamma)
    /\ pc' = "sigma_proved"
    /\ UNCHANGED << samples, shuffleVars, perm_proof, verified, faults, encVars, mainVars,
                    runVars, netVars, partyVars, proverVars >>

\* The response x of the proof is replaced by x + 1.
SigmaTamperX ==
    /\ pc = "sigma_proved"
    /\ faults = {}
    /\ test' = [test EXCEPT !.proof.x = FAdd(@, 1)]
    /\ faults' = {"x"}
    /\ UNCHANGED << pc, samples, shuffleVars, fs_table, perm_proof, verified, encVars,
                    mainVars, runVars, netVars, partyVars, proverVars >>

\* main.rs:966-975: local_verify_sigma_proof on the statement, and the assert.
SigmaVerify ==
    /\ pc = "sigma_proved"
    /\ \E gamma \in FsAnswers(fs_table, SigmaQuery(test.proof)) :
        /\ verified' = local_verify_sigma_proof(test.base_1, test.statement.d_batch,
                                                test.base_2, test.statement.c_1,
                                                test.statement.e_batch,
                                                test.statement.c2_batch, test.proof, gamma)
        /\ fs_table' = FsRecord(fs_table, SigmaQuery(test.proof), gamma)
    /\ pc' = IF verified' THEN "sigma_passed" ELSE "panic"
    /\ UNCHANGED << samples, shuffleVars, perm_proof, faults, encVars, mainVars, otherVars >>

SigmaNext ==
    \/ SigmaProve
    \/ SigmaTamperX
    \/ SigmaVerify

SpecSigma == SigmaInit /\ [][SigmaNext]_vars

\* C11: the proof dist_sigma_proof returns for witnesses w_i and w', batching
\* scalars s_i and bases base_1, base_2, base_3 is accepted by
\* local_verify_sigma_proof on the statement of these witnesses.
C11_SigmaProofOfTheWitnessesIsAccepted ==
    (pc \in {"sigma_passed", "panic"} /\ faults = {}) => verified

\* C11 witness: an accepted proof for bases other than the generators, a nonzero
\* challenge, nonzero witnesses and shares held by more than one party.
C11_Witness ==
    /\ pc = "sigma_passed"
    /\ faults = {}
    /\ test.name = "sigma"
    /\ test.base_1 # test.base_2
    /\ test.base_3 \notin {0, GtGenerator}
    /\ fs_table[SigmaQuery(test.proof)] > 1
    /\ test.statement.d_batch # 0
    /\ test.statement.c_1 # 0
    /\ test.proof.a1 # 0
    /\ \E k \in Parties \ {1} : samples[k] # 0

\* ------------------------------------------------------------- mult
\* main.rs:285-289: one call of mult.  The wires x and y and the triple are
\* shared independently of each other; x and y hold any value of F.
MultInputs ==
    {[name |-> "mult", x |-> Share(vx, sx), y |-> Share(vy, sy),
      triple |-> << Share(a, st), Share(b, st), Share(FMul(a, b), st) >>,
      result |-> NoProof] :
        vx \in F, vy \in F, a \in RanVals, b \in RanVals,
        sx \in SamplePatterns, sy \in SamplePatterns, st \in SamplePatterns}

MultInit ==
    /\ pc = "mult_start"
    /\ samples \in {[k \in 2..NParties |-> 0]}
    /\ fs_table = << >>
    /\ verified = FALSE
    /\ faults = {}
    /\ test \in MultInputs
    /\ ProtocolIdle
    /\ RunIdle
    /\ NetIdle
    /\ PartiesIdle
    /\ ProverIdle

\* main.rs:285-289: evaluator.mult(x, y, (a, b, c)).
MultCall ==
    /\ pc = "mult_start"
    /\ test' = [test EXCEPT !.result = mult(test.x, test.y, test.triple)]
    /\ pc' = "mult_done"
    /\ UNCHANGED << samples, shuffleVars, permVars, encVars, mainVars,
                    runVars, netVars, partyVars, proverVars >>

\* main.rs:404: output_wire on a result of mult.
MultOpen ==
    /\ pc = "mult_done"
    /\ test' = [test EXCEPT !.result = output_wire(test.result)]
    /\ pc' = "mult_opened"
    /\ UNCHANGED << samples, shuffleVars, permVars, encVars, mainVars,
                    runVars, netVars, partyVars, proverVars >>

MultNext ==
    \/ MultCall
    \/ MultOpen

SpecMult == MultInit /\ [][MultNext]_vars

\* C12 (as claimed): with the result shares formed as the description states
\* them (c + d*b + e*a on party 0, d*e on every party) the result of mult
\* reconstructs to x * y.
C12_DescribedSharesReconstructToProduct ==
    pc = "mult_done" =>
        output_wire(mult_as_described(test.x, test.y, test.triple))
            = FMul(output_wire(test.x), output_wire(test.y))

\* C12 (amended): with c + d*b + e*a of its own shares on every party and d*e
\* on one party, the result of mult reconstructs to x * y, for every sharing
\* of x, y and a triple with c = a * b.
C12_MultReconstructsToProduct ==
    /\ pc = "mult_done" =>
          output_wire(test.result) = FMul(output_wire(test.x), output_wire(test.y))
    /\ pc = "mult_opened" =>
          test.result = FMul(output_wire(test.x), output_wire(test.y))

\* C12 witness: a product other than 0 was opened, with d and e other than 0
\* and with shares of x, y and c held by parties other than party 0.
C12_Witness ==
    /\ pc = "mult_opened"
    /\ test.result # 0
    /\ output_wire(test.x) # output_wire(test.triple[1])
    /\ output_wire(test.y) # output_wire(test.triple[2])
    /\ \E k \in Parties \ {1} : test.x[k] # 0 /\ test.y[k] # 0 /\ test.triple[3][k] # 0

\* --------------------------------------------- test_share_poly_mult
\* The vectors of DeckSize wires of ran() whose shares differ from wire to
\* wire: wire i has the value w[i], party k > 0 holds i * smp[k] of it.
RanVectors(smp) ==
    {Vec([i \in 1..DeckSize |->
             Share(w[i], [k \in 2..NParties |-> (i * smp[k]) % FieldOrder])], DeckSize) :
        w \in [1..DeckSize -> RanVals]}

\* main.rs:1061-1062: every party interpolates its local shares.
InterpolateShares(share_evals) ==
    Vec([k \in Parties |-> interpolate_poly_over_mult_subgroup(LocalValues(share_evals, k))],
        NParties)

\* main.rs:1051-1064: the two shared polynomials and the point (a constant in
\* the source, any point of F here).
PolyMultInputs(smp) ==
    {[name |-> "test_share_poly_mult",
      share_poly_1 |-> InterpolateShares(e1), share_poly_2 |-> InterpolateShares(e2),
      random_point |-> z, share_poly_3 |-> NoProof, v_1 |-> 0, v_2 |-> 0, v_3 |-> 0] :
        e1 \in RanVectors(smp), e2 \in RanVectors(smp), z \in F}

PolyMultInit ==
    /\ pc = "poly_mult_start"
    /\ samples \in SamplePatterns
    /\ fs_table = << >>
    /\ verified = FALSE
    /\ faults = {}
    /\ test \in PolyMultInputs(samples)
    /\ ProtocolIdle
    /\ RunIdle
    /\ NetIdle
    /\ PartiesIdle
    /\ ProverIdle

\* main.rs:1066-1069: share_poly_mult, with the Beaver triple it draws.
PolyMultCall ==
    /\ pc = "poly_mult_start"
    /\ \E tr \in BeaverTriples(samples) :
        test' = [test EXCEPT !.share_poly_3 =
                    share_poly_mult(test.share_poly_1, test.share_poly_2, tr)]
    /\ pc' = "poly_mult_done"
    /\ UNCHANGED << samples, shuffleVars, permVars, encVars, mainVars,
                    runVars, netVars, partyVars, proverVars >>

\* main.rs:1072-1080: the three polynomials are evaluated at the point, the
\* values opened and compared (assert_eq!).
PolyMultCheck ==
    /\ pc = "poly_mult_done"
    /\ test' = [test EXCEPT
                   !.v_1 = output_wire(share_poly_eval(test.share_poly_1, test.random_point)),
                   !.v_2 = output_wire(share_poly_eval(test.share_poly_2, test.random_point)),
                   !.v_3 = output_wire(share_poly_eval(test.share_poly_3, test.random_point))]
    /\ pc' = IF FMul(test'.v_1, test'.v_2) = test'.v_3 THEN "poly_mult_passed" ELSE "panic"
    /\ UNCHANGED << samples, shuffleVars, permVars, encVars, mainVars,
                    runVars, netVars, partyVars, proverVars >>

PolyMultNext ==
    \/ PolyMultCall
    \/ PolyMultCheck

SpecPolyMult == PolyMultInit /\ [][PolyMultNext]_vars

\* C13: for any two shared polynomials of degree < DeckSize and any point z,
\* share_poly_mult(f, g) evaluated at z reconstructs to the product of the
\* reconstructed f(z) and g(z).
C13_SharePolyMultEvaluatesToProduct ==
    /\ pc # "panic"
    /\ pc = "poly_mult_passed" => test.v_3 = FMul(test.v_1, test.v_2)

\* C13 witness: the test passed with a product other than 0, at a point
\* outside H, on polynomials whose shares at parties other than party 0 are
\* not constant.
C13_Witness ==
    /\ pc = "poly_mult_passed"
    /\ test.v_3 # 0
    /\ test.random_point \notin H \cup {0}
    /\ \E k \in Parties \ {1} :
        /\ Len(test.share_poly_1[k]) > 1
        /\ \E c \in 2..Len(test.share_poly_1[k]) : test.share_poly_1[k][c] # 0
        /\ \E c \in 2..Len(test.share_poly_2[k]) : test.share_poly_2[k][c] # 0

\* ------------------------------------ test_local_kzg, test_dist_kzg
\* main.rs:1020-1036: the shared evaluations of test_dist_kzg and the point
\* (w in the source, any point of F here).
DistKzgInputs(smp) ==
    {[name |-> "test_dist_kzg", poly |-> InterpolateShares(e), point |-> z,
      com |-> 0, pi |-> 0] :
        e \in RanVectors(smp), z \in F}

\* main.rs:984-994: the evaluations and the point of test_local_kzg.
LocalKzgInputs ==
    {[name |-> "test_local_kzg", poly |-> interpolate_poly_over_mult_subgroup(e),
      point |-> z, com |-> 0, pi |-> 0] :
        e \in {Vec(w, DeckSize) : w \in [1..DeckSize -> F]}, z \in F}

KzgInit ==
    /\ pc = "kzg_start"
    /\ samples \in SamplePatterns
    /\ fs_table = << >>
    /\ verified = FALSE
    /\ faults = {}
    /\ test \in DistKzgInputs(samples) \cup LocalKzgInputs
    /\ ProtocolIdle
    /\ RunIdle
    /\ NetIdle
    /\ PartiesIdle
    /\ ProverIdle

\* main.rs:996-1006: the quotient by X - point and the two commitments.
LocalKzgCommit ==
    /\ pc = "kzg_start"
    /\ test.name = "test_local_kzg"
    /\ test' = [test EXCEPT !.com = commit_poly(test.poly),
                            !.pi = commit_poly(divide_by_linear(test.poly, test.point))]
    /\ pc' = "kzg_committed"
    /\ UNCHANGED << samples, shuffleVars, permVars, encVars, mainVars,
                    runVars, netVars, partyVars, proverVars >>

\* main.rs:1008-1012: kzg_check on the evaluation, and the assert.
LocalKzgCheck ==
    /\ pc = "kzg_committed"
    /\ test.name = "test_local_kzg"
    /\ verified' = kzg_check(test.com, test.point, evaluate(test.poly, test.point), test.pi)
    /\ pc' = IF verified' THEN "kzg_passed" ELSE "panic"
    /\ UNCHANGED << samples, shuffleVars, fs_table, perm_proof, faults, encVars, mainVars,
                    otherVars >>

\* main.rs:1033-1037: the sum of the parties' commitments and the proof.
DistKzgCommit ==
    /\ pc = "kzg_start"
    /\ test.name = "test_dist_kzg"
    /\ test' = [test EXCEPT
                   !.com = add_g1_elements_from_all_parties(
                               Vec([k \in Parties |-> commit_poly(test.poly[k])], NParties)),
                   !.pi = eval_proof_with_share_poly(test.poly, test.point)]
    /\ pc' = "kzg_committed"
    /\ UNCHANGED << samples, shuffleVars, permVars, encVars, mainVars,
                    runVars, netVars, partyVars, proverVars >>

\* main.rs:1039-1043: kzg_check on the opened evaluation, and the assert.
DistKzgCheck ==
    /\ pc = "kzg_committed"
    /\ test.name = "test_dist_kzg"
    /\ verified' = kzg_check(test.com, test.point,
                             output_wire(share_poly_eval(test.poly, test.point)), test.pi)
    /\ pc' = IF verified' THEN "kzg_passed" ELSE "panic"
    /\ UNCHANGED << samples, shuffleVars, fs_table, perm_proof, faults, encVars, mainVars,
                    otherVars >>

KzgNext ==
    \/ LocalKzgCommit
    \/ LocalKzgCheck
    \/ DistKzgCommit
    \/ DistKzgCheck

SpecKzg == KzgInit /\ [][KzgNext]_vars

\* C14: for any shared polynomial and any point z, kzg_check accepts the sum
\* of the parties' commitments, z, the sum of the parties' evaluations at z
\* and the sum of the parties' quotient commitments; for one party's
\* polynomial it accepts the commitment, z, the evaluation and the commitment
\* to the quotient by X - z.
C14_KzgCheckAcceptsSharedOpenings ==
    /\ pc # "panic"
    /\ pc = "kzg_passed" => verified

\* C14 witness: the distributed test passed at a point other than the
\* trapdoor with a nonzero proof and with polynomials of degree > 0 at
\* parties other than party 0.
C14_Witness ==
    /\ pc = "kzg_passed"
    /\ test.name = "test_dist_kzg"
    /\ test.point \notin {0, Tau}
    /\ test.pi # 0
    /\ \E k \in Parties \ {1} : \E c \in 2..Len(test.poly[k]) : test.poly[k][c] # 0

\* ------------------------------------------------- main, to its end
\* main.rs:106: shuffle_deck has returned the cards.
RunInit ==
    /\ pc = "perm_start"
    /\ samples \in SamplePatterns
    /\ sk = fixed_wire_handle(0)
    /\ card_share_values \in ShuffleOutputs(samples)
    /\ prfs = {}
    /\ trials = 0
    /\ fs_table = << >>
    /\ perm_proof = NoProof
    /\ verified = FALSE
    /\ faults = {}
    /\ enc_proof = NoProof
    /\ MainIdle
    /\ OthersIdle

\* main.rs:114-125: the result of verify_permutation_argument is printed and
\* main goes on to the encryption, whatever the result is.
MainAfterPermutation ==
    /\ pc = "perm_verified"
    /\ verdicts' = Append(verdicts, verified)
    /\ pc' = "enc_start"
    /\ UNCHANGED << samples, shuffleVars, permVars, encVars, mainVars, testVars,
                    exit_status, past_runs, netVars, partyVars, proverVars >>

\* main.rs:128-143: the result of local_verify_encryption_proof is printed,
\* the network thread is joined and main returns: the exit status is 0.
MainReturn ==
    /\ pc = "enc_verified"
    /\ verdicts' = Append(verdicts, verified)
    /\ exit_status' = 0
    /\ pc' = "exited"
    /\ UNCHANGED << samples, shuffleVars, permVars, encVars, mainVars, testVars,
                    past_runs, netVars, partyVars, proverVars >>

\* A panic of the main task ends the process with Rust's status 101.
MainPanic ==
    /\ pc = "panic"
    /\ exit_status' = 101
    /\ pc' = "exited"
    /\ UNCHANGED << samples, shuffleVars, permVars, encVars, mainVars, testVars,
                    verdicts, past_runs, netVars, partyVars, proverVars >>

RunNext ==
    \/ PermProve
    \/ PermVerify
    \/ MainAfterPermutation
    \/ EncProve
    \/ EncVerify
    \/ MainReturn
    \/ MainPanic

SpecRun == RunInit /\ [][RunNext]_vars

\* C17 (as claimed): the exit status of main is 0 if and only if both
\* verify_permutation_argument and local_verify_encryption_proof returned true.
C17_ExitStatusTellsVerification ==
    pc = "exited" => (exit_status = 0 <=> verdicts = << TRUE, TRUE >>)

\* ------------------------------------- evaluator and network daemon
\* main.rs:73-74: the two channels are created with mpsc::unbounded, so a
\* send enqueues whatever the number of messages pending.  The model lets up
\* to MaxInFlight messages of the peers be on their way to the evaluator.
MaxInFlight == 3

\* The labelled operations the evaluator of the model goes through.
NetOps == 2

\* This process is party 0.
Self == 1

\* The messages the peers can send: one per label and peer.
PeerMessages ==
    {<< MainLabels[i], j >> : i \in 1..NetOps, j \in Parties \ {Self}}

\* main.rs:72-89: the channels, the daemon's thread and the evaluator exist.
NetInit ==
    /\ pc = "net"
    /\ samples \in {[k \in 2..NParties |-> 0]}
    /\ fs_table = << >>
    /\ verified = FALSE
    /\ faults = {}
    /\ ProtocolIdle
    /\ OthersIdle

\* broadcast(label, bytes) at the evaluator: the message is handed to the
\* daemon through e2n_tx (an unbounded send).
EvalBroadcast ==
    /\ pc = "net"
    /\ ~main_posted[Self]
    /\ main_pos[Self] < NetOps
    /\ e2n' = Append(e2n, << MainLabels[main_pos[Self] + 1], Self >>)
    /\ main_posted' = [main_posted EXCEPT ![Self] = TRUE]
    /\ UNCHANGED << pc, samples, shuffleVars, permVars, encVars, main_pos, mailbox,
                    testVars, runVars, n2e, partyVars, proverVars >>

\* The daemon takes the next message of e2n_rx and sends it to the peers.
NetForward ==
    /\ pc = "net"
    /\ e2n # << >>
    /\ e2n' = Tail(e2n)
    /\ UNCHANGED << pc, samples, shuffleVars, permVars, encVars, mainVars,
                    testVars, runVars, n2e, partyVars, proverVars >>

\* The daemon receives a message of a peer and hands it to the evaluator
\* through n2e_tx (an unbounded send).
NetDeliver ==
    /\ pc = "net"
    /\ Len(n2e) < MaxInFlight
    /\ \E m \in PeerMessages : n2e' = Append(n2e, m)
    /\ UNCHANGED << pc, samples, shuffleVars, permVars, encVars, mainVars,
                    testVars, runVars, e2n, partyVars, proverVars >>

\* The evaluator takes the next message of n2e_rx.
EvalReceive ==
    /\ pc = "net"
    /\ n2e # << >>
    /\ mailbox' = mailbox \cup {Head(n2e)}
    /\ n2e' = Tail(n2e)
    /\ UNCHANGED << pc, samples, shuffleVars, permVars, encVars, main_pos, main_posted,
                    testVars, runVars, e2n, partyVars, proverVars >>

\* collect(label) at the evaluator: every peer's message under the label of
\* the current operation has been received.
EvalCollect ==
    /\ pc = "net"
    /\ main_posted[Self]
    /\ \A j \in Parties \ {Self} : << MainLabels[main_pos[Self] + 1], j >> \in mailbox
    /\ main_pos' = [main_pos EXCEPT ![Self] = @ + 1]
    /\ main_posted' = [main_posted EXCEPT ![Self] = FALSE]
    /\ UNCHANGED << pc, samples, shuffleVars, permVars, encVars, mailbox, otherVars >>

NetNext ==
    \/ EvalBroadcast
    \/ NetForward
    \/ NetDeliver
    \/ EvalReceive
    \/ EvalCollect

SpecNet == NetInit /\ [][NetNext]_vars

\* The capacity the claim's queues would have.
QueueCapacity == 2

\* C18 (as claimed): each of the two queues holds at most QueueCapacity
\* messages in every reachable state, and a send to a queue that holds
\* QueueCapacity messages does not enqueue.
C18_QueuesAreBounded ==
    /\ Len(e2n) <= QueueCapacity
    /\ Len(n2e) <= QueueCapacity

\* --------------------------------------- shuffle_deck at each party
\* The parties run shuffle_deck side by side.  view.rounds holds, for every
\* iteration some party has entered, the wires of the iteration (all the
\* parties' shares of the card c_i and of t_i = 1 / (c_i + sk)) and what the
\* network reveals of them; view.party[k] holds the locals of party k: the
\* iterations done, the set prfs, its shares of the cards pushed and the
\* iterations at which it pushed.

\* The iterations of the while loop a party of the model goes through.
MaxPartyTrials == 4

\* main.rs:196, 219: the PRF value a party tests and records is the value
\* output_wire_in_exponent reveals.  (Below: the party's own g^(t_i share).)
PartyPrfUnrevealed(round, k) == round.t_i[k]
PartyPrf(round, k) == round.y

\* main.rs:183-196, 206-219: the wires of one iteration and what is revealed:
\* whether inv fails, and y_i.
RoundOf(card, denom, h_r, tr) ==
    IF inv_fails(denom, h_r, tr)
    THEN [card |-> card, fails |-> TRUE, t_i |-> denom, y |-> 0]
    ELSE [card |-> card, fails |-> FALSE, t_i |-> inv(denom, h_r, tr),
          y |-> output_wire_in_exponent(inv(denom, h_r, tr))]

\* The iterations t can be: the fixed card of iteration t <= NFixed, or a
\* card of ran_64.
RoundsAt(t) ==
    IF t <= NFixed
    THEN {RoundOf(fixed_wire_handle(OmegaPow[FirstFixed + t - 1]),
                  clear_add(sk, OmegaPow[FirstFixed + t - 1]), Share(r, samples), tr) :
            r \in RanVals, tr \in BeaverTriples(samples)}
    ELSE {RoundOf(Share(c, samples), add(Share(c, samples), sk), Share(r, samples), tr) :
            r \in RanVals, tr \in BeaverTriples(samples), c \in H}

\* main.rs:182, 205: party k goes into another iteration.
PartyIterates(p) ==
    /\ p.pos = "run"
    /\ p.iter < NFixed \/ Len(p.cards) < DeckSize

PartiesInit ==
    /\ pc = "parties"
    /\ samples \in SamplePatterns
    /\ \E v \in F : sk = Share(v, samples)
    /\ card_share_values = << >>
    /\ prfs = {}
    /\ trials = 0
    /\ fs_table = << >>
    /\ perm_proof = NoProof
    /\ verified = FALSE
    /\ faults = {}
    /\ enc_proof = NoProof
    /\ MainIdle
    /\ TestIdle
    /\ RunIdle
    /\ NetIdle
    /\ ProverIdle
    /\ view = [rounds |-> << >>,
               party |-> [k \in Parties |->
                             [pos |-> "run", iter |-> 0, prfs |-> {}, cards |-> << >>,
                              pushed |-> << >>]]]

\* main.rs:182-202 and 205-227: one iteration at party k.  Its reveals
\* return once every party has entered the iteration.
PartyIteration(k) ==
    /\ pc = "parties"
    /\ PartyIterates(view.party[k])
    /\ view.party[k].iter < NFixed + MaxPartyTrials
    /\ \A j \in Parties :
        \/ view.party[j].iter > view.party[k].iter
        \/ view.party[j].iter = view.party[k].iter /\ PartyIterates(view.party[j])
    /\ LET p == view.party[k]
           t == p.iter + 1
       IN  \E round \in IF t <= Len(view.rounds) THEN {view.rounds[t]} ELSE RoundsAt(t) :
           LET push == t <= NFixed \/ ~prfs_contains(p.prfs, PartyPrf(round, k))
               q == IF round.fails
                    THEN [p EXCEPT !.pos = "panic", !.iter = t]
                    ELSE IF push
                    THEN [p EXCEPT !.iter = t,
                                   !.prfs = @ \cup {PartyPrf(round, k)},
                                   !.cards = Append(@, round.card[k]),
                                   !.pushed = Append(@, t)]
                    ELSE [p EXCEPT !.iter = t]
           IN  view' = [rounds |-> IF t <= Len(view.rounds) THEN view.rounds
                                   ELSE Append(view.rounds, round),
                        party |-> [view.party EXCEPT ![k] = q]]
    /\ UNCHANGED << pc, samples, shuffleVars, permVars, encVars, mainVars,
                    testVars, runVars, netVars, proverVars >>

\* main.rs:205, 240: the while loop ends at party k and the vectors are
\* returned.
PartyReturn(k) ==
    /\ pc = "parties"
    /\ view.party[k].pos = "run"
    /\ ~PartyIterates(view.party[k])
    /\ view' = [view EXCEPT !.party[k].pos = "done"]
    /\ UNCHANGED << pc, samples, shuffleVars, permVars, encVars, mainVars,
                    testVars, runVars, netVars, proverVars >>

PartiesNext ==
    \E k \in Parties : PartyIteration(k) \/ PartyReturn(k)

SpecParties == PartiesInit /\ [][PartiesNext]_vars

\* The iterations up to m at which party k pushed a card.
PushedUpTo(k, m) ==
    {view.party[k].pushed[i] : i \in {i \in 1..Len(view.party[k].pushed) :
                                          view.party[k].pushed[i] <= m}}

\* C19: the parties take the same decisions in shuffle_deck: over the
\* iterations two parties have both done they pushed a card at the same
\* iterations, a party returns only where the others return, and the parties
\* that returned did the same number of iterations and hold vectors of the
\* same length with shares of the same cards in the same order.
C19_PartiesDecideAlike ==
    \A j \in Parties : \A k \in Parties :
        LET pj == view.party[j]
            pk == view.party[k]
        IN  /\ pj.iter <= pk.iter => PushedUpTo(j, pj.iter) = PushedUpTo(k, pj.iter)
            /\ (pj.iter = pk.iter /\ pj.pos # "run" /\ pk.pos # "run") => pj.pos = pk.pos
            /\ (pj.iter = pk.iter /\ pj.pos = "done") => ~PartyIterates(pk)
            /\ (pj.pos = "done" /\ pk.pos = "done") =>
                  /\ pj.iter = pk.iter
                  /\ pj.pushed = pk.pushed
                  /\ Len(pj.cards) = Len(pk.cards)
                  /\ \A i \in 1..Len(pj.cards) :
                        /\ pj.cards[i] = view.rounds[pj.pushed[i]].card[j]
                        /\ pk.cards[i] = view.rounds[pj.pushed[i]].card[k]

\* C19 witness: every party returned after an iteration that pushed no card,
\* in a run in which a party other than the first holds a nonzero share.
C19_Witness ==
    /\ pc = "parties"
    /\ \A k \in Parties :
        /\ view.party[k].pos = "done"
        /\ view.party[k].iter > DeckSize
    /\ \E k \in Parties \ {1} : samples[k] # 0

\* ---------------------------------------- the positions of the fixed cards
\* C20: in the vector shuffle_deck returns the fixed cards are at the last
\* positions: for every i from FirstFixed to DeckSize - 1 the card at index i
\* (from 0) is w^i, and every card at an index below FirstFixed is a card of H
\* other than the fixed ones.
C20_FixedCardsAtSuffix ==
    pc = "shuffle_done" =>
        /\ \A i \in FirstFixed..(DeckSize - 1) : CardValues[i + 1] = OmegaPow[i]
        /\ \A i \in 0..(FirstFixed - 1) :
              CardValues[i + 1] \in H \ {OmegaPow[j] : j \in FirstFixed..(DeckSize - 1)}

\* ------------------------------------------------- main, run twice
\* The process is started, ends, and is started again with the same --id and
\* --seed and the same SRS (Tau).  fs_hash is the same function in both runs:
\* it is taken here as one fixed function of the blobs.

\* The runs of main the model goes through.
MaxRuns == 2

\* utils::fs_hash(blobs, k): k field elements, each a fixed function of the
\* blobs and of its index.
RECURSIVE FsFold(_, _, _)
FsFold(blobs, i, acc) ==
    IF i > Len(blobs) THEN acc
    ELSE FsFold(blobs, i + 1, (acc * 3 + blobs[i] + 1) % FieldOrder)

fs_hash(blobs, k) == Vec([j \in 1..k |-> FsFold(blobs \o << j >>, 1, 1)], k)

\* main.rs:464-517, with the second challenge hashed from the commitments.
PermEmitHashed(r1) ==
    IF ~r1.ok
    THEN /\ pc' = "panic"
         /\ UNCHANGED perm_proof
    ELSE /\ pc' = "perm_proved"
         /\ perm_proof' =
                PermRound2(r1, fs_hash(Hash2Query(r1.f_com, r1.q_com, r1.t_com, r1.g_com),
                                       1)[1])

\* main.rs:108-112: compute_permutation_argument on the cards.
PermProveHashed ==
    /\ pc = "perm_start"
    /\ \E a \in RanVals, b \in RanVals :
        PermEmitHashed(PermRound1(card_share_values, samples, TapeRandomizers(a, b),
                                  TapeMask(a, b), TapeTriple(a, b, samples),
                                  fs_hash(<< v_com, PermCommitF(card_share_values) >>, 1)[1],
                                  1))
    /\ UNCHANGED << samples, shuffleVars, fs_table, verified, faults, encVars, mainVars,
                    otherVars >>

\* main.rs:537-559: the challenges the verifier recomputes from a proof.
VerifierHash1(proof) == fs_hash(<< v_com, proof.f_com >>, 1)[1]

VerifierHash2(proof) ==
    fs_hash(Hash2Query(proof.f_com, proof.q_com, proof.t_com,
                       FAdd(proof.f_com, commit_poly(<< VerifierHash1(proof) >>))), 1)[1]

\* main.rs:114: verify_permutation_argument(&perm_proof).
PermVerifyHashed ==
    /\ pc = "perm_proved"
    /\ verified' = verify_permutation_argument(perm_proof, VerifierHash1(perm_proof),
                                               VerifierHash2(perm_proof))
    /\ pc' = "perm_verified"
    /\ UNCHANGED << samples, shuffleVars, fs_table, perm_proof, faults, encVars, mainVars,
                    otherVars >>

\* main.rs:808-860: s is hashed from the proof so far, the challenge of the
\* sigma proof from its first message, and the sigma proof is attached.
EncEmitHashed(tmp_proof, s, r, z_is, z2) ==
    enc_proof' =
        EncRound2(tmp_proof, r, z_is, s, z2,
                  fs_hash(SigmaQuery(SigmaMessage1(tmp_proof.card_commitment, G1Generator,
                                                   EBatch(tmp_proof, s), z2)), 1)[1])

EncStartHashed(tmp_proof, r, z_is, z2) ==
    EncEmitHashed(tmp_proof, fs_hash(to_bytes(tmp_proof), DeckSize), r, z_is, z2)

\* main.rs:122-127: pk is drawn from rand::thread_rng() and encrypt_and_prove
\* is called on the cards.
EncProveHashed ==
    /\ pc = "enc_start"
    /\ \E pk \in PkVals, a \in RanVals, b \in RanVals :
        EncStartHashed([sigma_proof |-> NoProof] @@
                           EncRound1(card_share_values, PermCommitF(card_share_values), pk,
                                     MainIds, Share(a, samples), EncTapeMasks(a, b, samples),
                                     TapeTriple(a, b, samples)),
                       Share(a, samples), EncTapeMasks(a, b, samples), Share(b, samples))
    /\ pc' = "enc_proved"
    /\ UNCHANGED << samples, shuffleVars, permVars, mainVars, otherVars >>

\* main.rs:128: local_verify_encryption_proof(&encrypt_proof).
EncVerifyHashed ==
    /\ pc = "enc_proved"
    /\ IF c1_loop_panics(enc_proof) \/ (all_c1_equal(enc_proof) /\ batch_loops_panic(enc_proof))
       THEN /\ pc' = "panic"
            /\ UNCHANGED verified
       ELSE /\ pc' = "enc_verified"
            /\ verified' =
                   local_verify_encryption_proof(
                       enc_proof, fs_hash(to_bytes(enc_proof), DeckSize),
                       fs_hash(SigmaQuery(enc_proof.sigma_proof), 1)[1])
    /\ UNCHANGED << samples, shuffleVars, fs_table, perm_proof, faults, enc_proof, mainVars,
                    otherVars >>

\* The challenges of a run that came to its end: gamma1 and gamma2 of the
\* permutation argument and the batching scalars s.
Challenges(pp, ep) ==
    [gamma1 |-> VerifierHash1(pp),
     gamma2 |-> VerifierHash2(pp),
     s |-> fs_hash(to_bytes([ep EXCEPT !.sigma_proof = NoProof]), DeckSize)]

\* The process has ended and is started again with the same arguments: the
\* evaluator's ran() and main's thread_rng() start afresh, shuffle_deck
\* returns a deck (main.rs:106).
MainStartedAgain ==
    /\ pc = "exited"
    /\ Len(past_runs) < MaxRuns - 1
    /\ past_runs' = Append(past_runs,
                           IF exit_status = 0
                           THEN [returned |-> TRUE] @@ Challenges(perm_proof, enc_proof)
                           ELSE [returned |-> FALSE])
    /\ pc' = "perm_start"
    /\ samples' \in SamplePatterns
    /\ card_share_values' \in ShuffleOutputs(samples')
    /\ perm_proof' = NoProof
    /\ enc_proof' = NoProof
    /\ verified' = FALSE
    /\ verdicts' = << >>
    /\ exit_status' = "running"
    /\ UNCHANGED << sk, prfs, trials, fs_table, faults, mainVars, testVars, netVars,
                    partyVars, proverVars >>

TwoRunsNext ==
    \/ PermProveHashed
    \/ PermVerifyHashed
    \/ MainAfterPermutation
    \/ EncProveHashed
    \/ EncVerifyHashed
    \/ MainReturn
    \/ MainPanic
    \/ MainStartedAgain

SpecTwoRuns == RunInit /\ [][TwoRunsNext]_vars

\* C21 (as claimed): two runs of main with the same --id and --seed and the
\* same SRS produce the same challenges gamma1 and gamma2 and the same
\* batching scalars s.
C21_RunsProduceTheSameChallenges ==
    (pc = "exited" /\ exit_status = 0 /\ past_runs # << >>) =>
        \A n \in 1..Len(past_runs) :
            past_runs[n].returned =>
                /\ past_runs[n].gamma1 = Challenges(perm_proof, enc_proof).gamma1
                /\ past_runs[n].gamma2 = Challenges(perm_proof, enc_proof).gamma2
                /\ past_runs[n].s = Challenges(perm_proof, enc_proof).s

\* ------------------------ compute_permutation_argument, step by step
\* The prover of main.rs:243-517 with its locals in the state: prover holds
\* what the step it has come to has computed.

\* main.rs:253-352: the masks and the commitments to f and g are computed,
\* or an inversion or the assertion on g_com fails.
ProverAtG(a, b, y1, m, g) ==
    /\ prover' = [step |-> "g", tape |-> << a, b >>, y1 |-> y1, m |-> m, g |-> g]
    /\ pc' = IF m.ok /\ g.ok THEN "prover_g" ELSE "panic"

ProverCommit ==
    /\ pc = "perm_start"
    /\ \E a \in RanVals, b \in RanVals :
        \E y1 \in FsAnswers(fs_table, << v_com, PermCommitF(card_share_values) >>) :
            /\ ProverAtG(a, b, y1,
                         PermMasks(samples, TapeRandomizers(a, b), TapeMask(a, b),
                                   TapeTriple(a, b, samples)),
                         PermCommitG(card_share_values, y1))
            /\ fs_table' = FsRecord(fs_table,
                                    << v_com, PermCommitF(card_share_values) >>, y1)
    /\ UNCHANGED << samples, shuffleVars, perm_proof, verified, faults, encVars, mainVars,
                    testVars, runVars, netVars, partyVars >>

\* main.rs:354-433: h, the opened t'_i and the shares t_i, or the inversion
\* of an h_i fails.
ProverAtT(tape, y1, t) ==
    /\ prover' = [step |-> "t", tape |-> tape, y1 |-> y1, t |-> t]
    /\ pc' = IF t.ok THEN "prover_t" ELSE "panic"

ProverComputeT ==
    /\ pc = "prover_g"
    /\ ProverAtT(prover.tape, prover.y1,
                 PermComputeT(prover.m, prover.g, prover.y1,
                              TapeTriple(prover.tape[1], prover.tape[2], samples), 1))
    /\ UNCHANGED << samples, shuffleVars, permVars, encVars, mainVars,
                    testVars, runVars, netVars, partyVars >>

\* main.rs:435-462: d, the assertion that d vanishes on H, and q.
ProverAtQ(tape, y1, q) ==
    /\ prover' = [step |-> "q", tape |-> tape, y1 |-> y1, q |-> q]
    /\ pc' = IF q.ok THEN "prover_q" ELSE "panic"

ProverComputeQ ==
    /\ pc = "prover_t"
    /\ ProverAtQ(prover.tape, prover.y1,
                 PermComputeQ(prover.t, TapeTriple(prover.tape[1], prover.tape[2], samples)))
    /\ UNCHANGED << samples, shuffleVars, permVars, encVars, mainVars,
                    testVars, runVars, netVars, partyVars >>

\* main.rs:464-517: the second challenge is hashed, the openings are
\* computed and the proof is returned.
ProverEmit ==
    /\ pc = "prover_q"
    /\ \E y2 \in FsAnswers(fs_table, Hash2Query(prover.q.f_com, prover.q.q_com,
                                                prover.q.t_com, prover.q.g_com)) :
        /\ perm_proof' = PermRound2(prover.q, y2)
        /\ fs_table' = FsRecord(fs_table,
                                Hash2Query(prover.q.f_com, prover.q.q_com, prover.q.t_com,
                                           prover.q.g_com), y2)
        /\ prover' = [step |-> "done", tape |-> prover.tape, y1 |-> prover.y1, y2 |-> y2]
    /\ pc' = "perm_proved"
    /\ UNCHANGED << samples, shuffleVars, verified, faults, encVars, mainVars,
                    testVars, runVars, netVars, partyVars >>

ProverNext ==
    \/ PermTamperCard
    \/ ProverCommit
    \/ ProverComputeT
    \/ ProverComputeQ
    \/ ProverEmit
    \/ PermVerify

SpecProver == PermInit /\ [][ProverNext]_vars

\* prod_{j <= i} g_j / h_j with g_j = card_j + y1 and h_j = w^j + y1.
RatioProduct(i, y1) ==
    ProductTo(Vec([j \in 1..DeckSize |->
                      FDiv(FAdd(CardValues[j], y1), FAdd(OmegaPow[j - 1], y1))],
                  DeckSize),
              i)

\* C22: the masks cancel in the grand product: every t_i the prover computes
\* reconstructs to prod_{j <= i} g_j / h_j, whatever the randomizers are, and
\* the last one reconstructs to 1 when the cards are a permutation of H.
C22_MasksCancelInGrandProduct ==
    (pc = "prover_t" /\ prover.step = "t") =>
        /\ \A i \in 1..DeckSize :
              output_wire(prover.t.t_is[i]) = RatioProduct(i, prover.y1)
        /\ IsPermutationOfH(CardValues) => output_wire(prover.t.t_is[DeckSize]) = 1

\* C22 witness: the t_i have been computed from randomizers that differ from
\* each other, with a nonzero challenge and with shares held by every party.
C22_Witness ==
    /\ pc = "prover_t"
    /\ prover.step = "t"
    /\ prover.tape[1] # 0
    /\ prover.y1 # 0
    /\ IsPermutationOfH(CardValues)
    /\ \A k \in Parties \ {1} : samples[k] # 0

\* The remainder of the reconstructed d by X^DeckSize - 1.
DRemainder(d_share_poly) ==
    Vec([i \in 1..DeckSize |->
            SumTo(Vec([k \in Parties |->
                          Coef(divide_by_vanishing_poly(d_share_poly[k])[2], i)],
                      NParties),
                  NParties)],
        DeckSize)

\* C23: in a run on cards that are a permutation of H the assertion on d
\* never fails: the reconstructed d is zero at every w^i, the first one
\* included, where t(X/w) is t at the last power of w, and the remainder of d
\* by X^DeckSize - 1 is zero.
C23_SanityAssertionHoldsOnPermutations ==
    (prover.step = "q" /\ IsPermutationOfH(CardValues)) =>
        /\ pc # "panic"
        /\ \A i \in 1..DeckSize :
              output_wire(share_poly_eval(prover.q.d_share_poly, OmegaPow[i - 1])) = 0
        /\ DRemainder(prover.q.d_share_poly) = Vec([i \in 1..DeckSize |-> 0], DeckSize)

\* C23 witness: the assertion has been passed on a permutation of H shared
\* between all the parties, with a nonzero challenge and randomizers that
\* differ from each other.
C23_Witness ==
    /\ pc = "prover_q"
    /\ prover.step = "q"
    /\ IsPermutationOfH(CardValues)
    /\ prover.y1 # 0
    /\ prover.tape[1] # 0
    /\ \A k \in Parties \ {1} : samples[k] # 0

\* The second challenge as verify_permutation_argument hashes it: from the
\* commitments of the proof and g_com = f_com + [hash1] (main.rs:537-559).
VerifierGamma2 ==
    fs_table[Hash2Query(perm_proof.f_com, perm_proof.q_com, perm_proof.t_com,
                        FAdd(perm_proof.f_com, commit_poly(<< Gamma1 >>)))]

\* C24: the prover and the verifier agree on the commitment to g and on the
\* challenges: the sum of the parties' commitments to their shares of g is
\* f_com + y1 * G1, so the prover's assertion on g_com holds, and the hash1
\* and hash2 of the verifier are the y1 and y2 of the prover.
C24_ProverAndVerifierAgree ==
    /\ prover.step = "g" =>
          /\ prover.g.ok
          /\ prover.g.g_com = FAdd(prover.g.f_com, FMul(prover.y1, G1Generator))
    /\ (pc = "perm_verified" /\ prover.step = "done") =>
          /\ Gamma1 = prover.y1
          /\ VerifierGamma2 = prover.y2

\* C24 witness: the verifier has run on the proof of a prover whose cards
\* are shared between all the parties and whose first challenge is not zero.
C24_Witness ==
    /\ pc = "perm_verified"
    /\ prover.step = "done"
    /\ prover.y1 # 0
    /\ faults = {}
    /\ \A k \in Parties \ {1} : samples[k] # 0

\* Some h_i = w^i + y1 is zero.
SomeHIsZero(y1) == \E i \in 1..DeckSize : FAdd(OmegaPow[i - 1], y1) = 0

\* C28 (as claimed): whatever challenge the prover derives, every h_i is
\* nonzero and the prover does not panic on the inverse of an h_i.
C28_NoChallengeMakesAnHZero ==
    prover.step \in {"g", "t"} =>
        /\ ~SomeHIsZero(prover.y1)
        /\ prover.step = "t" => pc # "panic"

\* C28 (amended): the prover inverts the h_i only when all of them are
\* nonzero: the step that computes the t_i panics exactly when y1 is minus a
\* power of w, and then no proof is emitted; a proof is emitted only for
\* another y1.
C28_ProverAbortsOnZeroH ==
    /\ prover.step = "t" =>
          /\ SomeHIsZero(prover.y1) <=> pc = "panic"
          /\ pc = "panic" => perm_proof = NoProof
    /\ prover.step \in {"q", "done"} => ~SomeHIsZero(prover.y1)
    /\ perm_proof # NoProof => prover.step = "done"

\* C28 witness: an honest prover has panicked on the inverse of an h_i.
C28_Witness ==
    /\ pc = "panic"
    /\ prover.step = "t"
    /\ SomeHIsZero(prover.y1)
    /\ faults = {}
    /\ \A k \in Parties \ {1} : samples[k] # 0

\* ------------------------------------------- the batching scalars
\* C25 (as claimed): the batching scalars local_verify_encryption_proof
\* hashes from the proof it is given, with its sigma proof, are the scalars
\* encrypt_and_prove hashed from the proof before its sigma proof was
\* attached.
C25_VerifierRecomputesTheBatchingScalars ==
    (pc = "enc_verified" /\ faults = {}) =>
        fs_table[to_bytes(enc_proof)]
            = fs_table[to_bytes([enc_proof EXCEPT !.sigma_proof = NoProof])]

\* ------------------------------------------------------ the seen-set
\* The iterations before t at which party k pushed a card.
PushedBefore(k, t) == PushedUpTo(k, t - 1)

\* C26: in every state of the loops of shuffle_deck, at every party, prfs
\* holds one PRF value g^(1 / (sk + card)) for each card pushed and nothing
\* else, so it has as many elements as cards were pushed, at most DeckSize;
\* the card of an iteration of the while loop was pushed if and only if its
\* revealed PRF value was not in prfs, and it was rejected exactly when its
\* value is the value of a card pushed before.
C26_SeenSetHoldsThePrfsOfThePushedCards ==
    \A k \in Parties :
        LET p == view.party[k]
        IN  /\ p.prfs = {FInv(FAdd(output_wire(sk), output_wire(view.rounds[t].card))) :
                            t \in PushedUpTo(k, p.iter)}
            /\ Cardinality(p.prfs) = Len(p.cards)
            /\ Len(p.cards) <= DeckSize
            /\ \A t \in (NFixed + 1)..p.iter :
                  ~view.rounds[t].fails =>
                      /\ t \in PushedUpTo(k, p.iter)
                            <=> view.rounds[t].y \notin
                                    {view.rounds[u].y : u \in PushedBefore(k, t)}
                      /\ t \notin PushedUpTo(k, p.iter)
                            <=> output_wire(view.rounds[t].card) \in
                                    {output_wire(view.rounds[u].card) :
                                        u \in PushedBefore(k, t)}

\* C26 witness: a party has rejected a card in the while loop and pushed a
\* card after it, with shares held by another party.
C26_Witness ==
    /\ pc = "parties"
    /\ \E k \in Parties :
        \E t \in (NFixed + 1)..view.party[k].iter :
            /\ t \notin PushedUpTo(k, view.party[k].iter)
            /\ \E u \in PushedUpTo(k, view.party[k].iter) : u > t
    /\ \E k \in Parties \ {1} : samples[k] # 0

\* ------------------------------------------- shuffle_deck, fair draws
\* main.rs:205-227: one iteration of the while loop in which ran_64 returns
\* the card c.  The loop has no counter: trials, which the model keeps, starts
\* again after MaxTrials, so that every iteration is a step and none stops the
\* loop.
ShuffleDrawCard(c) ==
    /\ pc = "shuffle_draw"
    /\ Len(card_share_values) < DeckSize
    /\ \E r \in RanVals, tr \in BeaverTriples(samples) :
        LET h_r == Share(r, samples)
            c_i == Share(c, samples)
            t_i == add(c_i, sk)
        IN  IF inv_fails(t_i, h_r, tr)
            THEN /\ pc' = "panic"
                 /\ UNCHANGED << samples, shuffleVars, permVars, encVars, mainVars, otherVars >>
            ELSE LET y_i == output_wire_in_exponent(inv(t_i, h_r, tr))
                 IN  /\ trials' = IF trials < MaxTrials THEN trials + 1 ELSE 1
                     /\ IF ~prfs_contains(prfs, y_i)
                        THEN /\ prfs' = prfs \cup {y_i}
                             /\ card_share_values' = Append(card_share_values, c_i)
                        ELSE UNCHANGED << prfs, card_share_values >>
                     /\ UNCHANGED << pc, samples, sk, permVars, encVars, mainVars, otherVars >>

ShuffleFairNext ==
    \/ ShuffleFixedCard
    \/ ShuffleFixedDone
    \/ \E c \in H : ShuffleDrawCard(c)
    \/ ShuffleReturn

\* The task of shuffle_deck keeps running, and ran_64 keeps returning every
\* element of H as long as the while loop runs.
SpecShuffleFair ==
    /\ ShuffleInit
    /\ [][ShuffleFairNext]_vars
    /\ WF_vars(ShuffleFixedCard)
    /\ WF_vars(ShuffleFixedDone)
    /\ WF_vars(ShuffleReturn)
    /\ \A c \in H : WF_vars(ShuffleDrawCard(c))

\* C27: when ran_64 keeps returning every element of H and no inversion of
\* zero happens, shuffle_deck returns with DeckSize cards: every card that is
\* not among the cards pushed is pushed later, and the number of cards pushed
\* never decreases.
C27_ShuffleTerminatesUnderFairDraws ==
    /\ <>(pc = "panic" \/ (pc = "shuffle_done" /\ Len(card_share_values) = DeckSize))
    /\ \A c \in H :
          (pc = "shuffle_draw" /\ \A i \in 1..Len(CardValues) : CardValues[i] # c)
              ~> (pc = "panic" \/ \E i \in 1..Len(CardValues) : CardValues[i] = c)
    /\ [][Len(card_share_values') >= Len(card_share_values)]_vars

\* C27 witness: shuffle_deck has returned after as many iterations of the
\* while loop as the model counts, with shares held by another party.
C27_Witness ==
    /\ pc = "shuffle_done"
    /\ Len(card_share_values) = DeckSize
    /\ trials = MaxTrials
    /\ \E k \in Parties \ {1} : samples[k] # 0

=============================================================================
